---- MODULE Spec2Model ----
(***************************************************************************)
(* ferridyn-memory: the memory engine (backend facade, TTL layer, schema   *)
(* bootstrap, lifecycle operations) and its two surfaces (MCP tools, CLI). *)
(*                                                                         *)
(* Encoding of values:                                                     *)
(*  - a document (serde_json object) is a function from attribute names    *)
(*    to values;                                                           *)
(*  - an RFC 3339 timestamp string is the number of seconds it denotes;    *)
(*    a value of expires_at that is not a parseable RFC 3339 string is     *)
(*    NotATimestamp;                                                       *)
(*  - a "YYYY-MM-DD" date string is the day number it denotes; a date      *)
(*    attribute that is not such a string is NotADate;                     *)
(*  - a TTL string is its sequence of characters;                          *)
(*  - an index name "{category}_{attribute}" is the pair <<category,       *)
(*    attribute>>.                                                         *)
(***************************************************************************)
EXTENDS Integers, Sequences, FiniteSets, TLC

VARIABLES
    store,      \* the items of the memories table (the engine's state)
    last,       \* (category, key) -> the document of the latest put_item, if not deleted since
    schemas,    \* category -> "none" | "lenient" | "strict" (partition schemas)
    indexes,    \* the secondary indexes, as list_indexes reports them
    now,        \* Utc::now(), in seconds
    task,       \* per caller: the handler in progress, its locals, its last result
    ops,        \* handler invocations so far
    ticks,      \* clock advances so far
    faults,     \* backend errors and cancellations injected so far
    tables,     \* table name -> the items of a namespace's table
    server,     \* the MCP server: its backend's table_name, its default_namespace
    locks       \* the two mutexes (who holds each, 0 for nobody), the requests in flight

vars == <<store, last, schemas, indexes, now, task, ops, ticks, faults, tables, server, locks>>

(***************************************************************************)
(* Bounds of the model.                                                    *)
(***************************************************************************)
MaxOps == 3
MaxTicks == 1
MaxFaults == 1
MaxText == 9

Procs == {1, 2}

(***************************************************************************)
(* Time.                                                                   *)
(***************************************************************************)
HourSecs == 3600
DaySecs == 24 * HourSecs
WeekSecs == 7 * DaySecs
StartNow == 2 * DaySecs
TickSteps == {HourSecs, DaySecs}

NotATimestamp == 0 - 1
\* an attribute value that is not a JSON string (number, bool, null, ...)
NotAString == 0 - 2
NotADate == 0 - 1

SCRATCHPAD_DEFAULT_TTL == 24 * HourSecs
SESSIONS_DEFAULT_TTL == 7 * DaySecs
INTERACTIONS_DEFAULT_TTL == 90 * DaySecs

(***************************************************************************)
(* Documents.                                                              *)
(***************************************************************************)
NoDoc == [absent |-> TRUE]
IsDoc(d) == "category" \in DOMAIN d

Has(d, a) == a \in DOMAIN d
\* doc[a] = v
PutAttr(d, a, v) == [x \in DOMAIN d \cup {a} |-> IF x = a THEN v ELSE d[x]]
\* obj.remove(a)
RemoveAttr(d, a) == [x \in DOMAIN d \ {a} |-> d[x]]
\* for (k, v) in attrs { if k in skip { continue }; doc[k] = v }
CopyAttrs(d, attrs, skip) ==
    [x \in DOMAIN d \cup (DOMAIN attrs \ skip) |->
        IF x \in DOMAIN attrs \ skip THEN attrs[x] ELSE d[x]]

SystemAttrs == {"created_at", "expires_at"}
NonSystem(d) == [x \in DOMAIN d \ SystemAttrs |-> d[x]]

(***************************************************************************)
(* TTL utilities (ttl.rs).                                                 *)
(***************************************************************************)
Digits == <<"0", "1", "2", "3", "4", "5", "6", "7", "8", "9">>
IsDigit(c) == \E i \in 1..10 : Digits[i] = c
DigitVal(c) == (CHOOSE i \in 1..10 : Digits[i] = c) - 1

RECURSIVE DigitsValue(_)
DigitsValue(s) ==
    IF s = <<>> THEN 0
    ELSE 10 * DigitsValue(SubSeq(s, 1, Len(s) - 1)) + DigitVal(s[Len(s)])

\* str::parse::<i64>: an optional sign, then one or more decimal digits
ParseI64(s) ==
    LET signed == Len(s) > 0 /\ s[1] \in {"+", "-"}
        body == IF signed THEN Tail(s) ELSE s
    IN  IF body = <<>> \/ \E i \in 1..Len(body) : ~IsDigit(body[i])
        THEN [ok |-> FALSE, val |-> 0]
        ELSE [ok |-> TRUE,
              val |-> IF signed /\ s[1] = "-" THEN 0 - DigitsValue(body)
                      ELSE DigitsValue(body)]

RECURSIVE TrimLeft(_)
TrimLeft(s) == IF s # <<>> /\ s[1] = " " THEN TrimLeft(Tail(s)) ELSE s
RECURSIVE TrimRight(_)
TrimRight(s) ==
    IF s # <<>> /\ s[Len(s)] = " " THEN TrimRight(SubSeq(s, 1, Len(s) - 1)) ELSE s
Trim(s) == TrimRight(TrimLeft(s))

UnitSecs(unit) ==
    CASE unit = "h" -> HourSecs
      [] unit = "d" -> DaySecs
      [] unit = "w" -> WeekSecs
      [] OTHER -> 0

\* the bytes a character takes in UTF-8; "U+00E9" stands for the one
\* character e-acute, the other characters used are ASCII
Utf8Len(c) == IF c = "U+00E9" THEN 2 ELSE 1
\* str::is_char_boundary(s.len() - 1) for a non-empty s
LastByteIsChar(s) == Utf8Len(s[Len(s)]) = 1

TtlErr == [ok |-> FALSE, secs |-> 0, panic |-> FALSE]
\* parse_ttl: Ok(duration in seconds) or Err; s.split_at(s.len() - 1) panics
\* when the last byte is not a character of its own
parse_ttl(str) ==
    LET s == Trim(str) IN
    IF s = <<>> THEN TtlErr
    ELSE IF ~LastByteIsChar(s) THEN [ok |-> FALSE, secs |-> 0, panic |-> TRUE]
    ELSE LET num == ParseI64(SubSeq(s, 1, Len(s) - 1))
             unit == s[Len(s)]
         IN  IF ~num.ok THEN TtlErr
             ELSE IF num.val <= 0 THEN TtlErr
             ELSE IF unit \in {"h", "d", "w"}
                  THEN [ok |-> TRUE, secs |-> num.val * UnitSecs(unit), panic |-> FALSE]
                  ELSE TtlErr

\* compute_expires_at: (Utc::now() + ttl).to_rfc3339()
compute_expires_at(t, ttl) == t + ttl

\* Value::as_str
IsStr(v) == v # NotAString
\* DateTime::parse_from_rfc3339
ParsesAsTimestamp(v) == v # NotATimestamp

\* is_expired, were the comparison left out
is_expired_never(item, t) == FALSE
\* is_expired, were every expires_at that is present compared with the clock
is_expired_unchecked(item, t) ==
    /\ Has(item, "expires_at")
    /\ t > item["expires_at"]
\* is_expired: expires_at present, a string, parseable, and Utc::now() > expires
is_expired(item, t) ==
    /\ Has(item, "expires_at")
    /\ IsStr(item["expires_at"])
    /\ ParsesAsTimestamp(item["expires_at"])
    /\ t > item["expires_at"]

\* filter_expired
filter_expired(items, t) == SelectSeq(items, LAMBDA d : ~is_expired(d, t))

\* auto_ttl_from_date: the end (23:59:59 UTC) of the day of the date attribute
HasIsoDate(item) == Has(item, "date") /\ item["date"] # NotADate
auto_ttl_from_date(item) == item["date"] * DaySecs + (DaySecs - 1)

(***************************************************************************)
(* The table: keys, ordering, and the facade's item operations.            *)
(***************************************************************************)
\* the sort keys used, in sort-key (lexicographic) order
KeyOrder == <<"a1", "b1", "unknown">>
KeyUniverse == {KeyOrder[i] : i \in 1..Len(KeyOrder)}
KeyChars(k) ==
    CASE k = "a1" -> <<"a", "1">>
      [] k = "b1" -> <<"b", "1">>
      [] k = "unknown" -> <<"u", "n", "k", "n", "o", "w", "n">>
      [] k = "a" -> <<"a">>
      [] k = "z" -> <<"z">>
      [] OTHER -> <<>>
BeginsWith(k, pfx) ==
    LET kc == KeyChars(k)  pc == KeyChars(pfx)
    IN  Len(pc) <= Len(kc) /\ SubSeq(kc, 1, Len(pc)) = pc

NoPrefix == "*none*"

SameKey(d, c, k) == d["category"] = c /\ d["key"] = k

\* put_item, were it to update the stored document attribute by attribute
put_item_merge(st, doc) ==
    LET old == {d \in st : SameKey(d, doc["category"], doc["key"])}
        merged == IF old = {} THEN doc
                  ELSE LET o == CHOOSE d \in old : TRUE
                       IN  [x \in DOMAIN o \cup DOMAIN doc |->
                              IF x \in DOMAIN doc THEN doc[x] ELSE o[x]]
    IN  (st \ old) \cup {merged}
\* put_item: upsert of the whole document under the document's own keys
put_item(st, doc) ==
    {d \in st : ~SameKey(d, doc["category"], doc["key"])} \cup {doc}

\* get_item, were it to answer with another item of the category when the
\* key is absent
get_item_or_neighbour(st, c, k) ==
    LET hit == {d \in st : SameKey(d, c, k)}
        near == {d \in st : d["category"] = c}
    IN  IF hit # {} THEN CHOOSE d \in hit : TRUE
        ELSE IF near # {} THEN CHOOSE d \in near : TRUE
        ELSE NoDoc
\* get_item: Some(item) or None
get_item(st, c, k) ==
    LET hit == {d \in st : SameKey(d, c, k)}
    IN  IF hit = {} THEN NoDoc ELSE CHOOSE d \in hit : TRUE

\* delete_item, were it to remove the whole partition
delete_item_partition(st, c, k) == {d \in st : d["category"] # c}
\* delete_item: removes the item if present, no error if absent
delete_item(st, c, k) == {d \in st : ~SameKey(d, c, k)}

RECURSIVE ScanFrom(_, _, _, _)
ScanFrom(st, c, pfx, i) ==
    IF i > Len(KeyOrder) THEN <<>>
    ELSE LET k == KeyOrder[i]
             d == get_item(st, c, k)
             rest == ScanFrom(st, c, pfx, i + 1)
         IN  IF IsDoc(d) /\ (pfx = NoPrefix \/ BeginsWith(k, pfx))
             THEN <<d>> \o rest ELSE rest

Take(s, n) == IF Len(s) <= n THEN s ELSE SubSeq(s, 1, n)

\* query: at most limit items of the partition in sort-key order
query(st, c, pfx, limit) == Take(ScanFrom(st, c, pfx, 1), limit)


\* query_index: exact match on the indexed attribute of the index's category
query_index(st, idx, name, val, limit) ==
    IF \A n \in idx : n.name # name THEN [ok |-> FALSE, items |-> <<>>]
    ELSE LET n == CHOOSE n \in idx : n.name = name
         IN  [ok |-> TRUE,
              items |-> Take(SelectSeq(ScanFrom(st, n.partition_schema, NoPrefix, 1),
                                       LAMBDA d : Has(d, n.index_key) /\ d[n.index_key] = val),
                             limit)]

(***************************************************************************)
(* The predefined catalog and the schema manager (schema.rs).              *)
(***************************************************************************)
PREDEFINED_SCHEMAS ==
    <<"project", "decisions", "contacts", "preferences", "issues",
      "tools", "events", "notes", "scratchpad">>
PredefinedNames == {PREDEFINED_SCHEMAS[i] : i \in 1..Len(PREDEFINED_SCHEMAS)}

Common == {"content", "expires_at", "created_at"}
attributes(c) ==
    CASE c = "project" -> {"topic", "area", "details"} \cup Common
      [] c = "decisions" -> {"title", "domain", "decision", "rationale"} \cup Common
      [] c = "contacts" -> {"name", "email", "role", "team", "notes"} \cup Common
      [] c = "preferences" -> {"scope", "preference"} \cup Common
      [] c = "issues" ->
           {"area", "symptom", "cause", "fix", "workaround", "resolved"} \cup Common
      [] c = "tools" -> {"kind", "name", "value", "notes"} \cup Common
      [] c = "events" -> {"title", "date", "time", "location", "notes"} \cup Common
      [] c = "notes" -> {"topic"} \cup Common
      [] c = "scratchpad" -> {"topic", "source"} \cup Common
      [] OTHER -> {}

indexed_attributes(c) ==
    CASE c = "project" -> <<"area", "topic">>
      [] c = "decisions" -> <<"domain">>
      [] c = "contacts" -> <<"name", "email", "role", "team">>
      [] c = "preferences" -> <<"scope">>
      [] c = "issues" -> <<"area">>
      [] c = "tools" -> <<"kind", "name">>
      [] c = "events" -> <<"date", "title">>
      [] c = "notes" -> <<"topic">>
      [] c = "scratchpad" -> <<"topic">>
      [] OTHER -> <<>>

\* categories outside the catalog that the surfaces know (ttl.rs defaults)
ExtraCats == {"sessions", "interactions"}
AllCats == PredefinedNames \cup ExtraCats

NoSchemas == [c \in AllCats |-> "none"]
SchemaSet(sch) == {c \in AllCats : sch[c] # "none"}

\* index_name = format!("{category}_{attr_name}")
IndexName(c, a) == c \o "_" \o a
\* what list_indexes reports of an index
IndexInfo(c, a) == [name |-> IndexName(c, a), partition_schema |-> c, index_key |-> a]

\* has_schema when describe_schema answers (found, or the not-found error)
has_schema(sch, c) == c \in AllCats /\ sch[c] # "none"

\* list_schemas: the prefixes of the schemas, in catalog order then extras
ListOrder == PREDEFINED_SCHEMAS \o <<"sessions", "interactions">>
list_schemas(sch) == SelectSeq(ListOrder, LAMBDA c : sch[c] # "none")

(***************************************************************************)
(* Backend faults.  A fault is one backend call answering with an error;   *)
(* NoFault is the call succeeding.                                         *)
(***************************************************************************)
NoFault == <<"none", "">>
FaultChoices(points) == {NoFault} \cup (IF faults < MaxFaults THEN points ELSE {})
Charge(f) == faults' = IF f = NoFault THEN faults ELSE faults + 1

\* create_schema_with_indexes for one catalog entry: the schema, then one
\* create_index per suggested index that names an attribute; a failing
\* create_index (the injected fault, or an index that already exists) is
\* warned about and swallowed.  Gives the indexes added and the calls issued.
IndexTargets(c) ==
    SelectSeq(indexed_attributes(c), LAMBDA a : a \in attributes(c))
Call(op, c, arg) == [call |-> op, category |-> c, arg |-> arg]
CreateIndexCalls(c) ==
    [j \in 1..Len(IndexTargets(c)) |->
        Call("createIndex", c, IndexName(c, IndexTargets(c)[j]))]
IndexesCreated(idx, c, f) ==
    {n \in {IndexInfo(c, IndexTargets(c)[j]) : j \in 1..Len(IndexTargets(c))} :
        /\ f # <<"createIndex", n.name>>
        /\ \A m \in idx : m.name # n.name}

EnsureFaultPoints(c) ==
    {<<"describeSchema", "">>, <<"createSchema", "">>}
        \cup {<<"createIndex", IndexName(c, IndexTargets(c)[j])>> :
                j \in 1..Len(IndexTargets(c))}


(***************************************************************************)
(* Callers.  task[p] is the handler caller p runs (op), where it is (pc,   *)
(* "idle" between handlers), its parameters and locals, and what the last  *)
(* handler returned.                                                       *)
(***************************************************************************)
None == "*none*"
NoTtl == <<"*none*">>

\* TABLE_NAME, and resolve_table_name: memories, or memories_{ns}
TABLE_NAME == "memories"
resolve_table_name(namespace) ==
    IF namespace # None THEN "memories_" \o namespace ELSE TABLE_NAME
\* the namespaces used, and their tables
Namespaces == {"a", "b"}
NamespaceTables == {resolve_table_name(ns) : ns \in Namespaces}

\* no describe_schema answer, no has_schema or get_schema result
NoAnswer == [ok |-> FALSE, prefix |-> None, kind |-> "none", msg |-> <<>>]
NoResult == [ok |-> FALSE, val |-> None, err |-> NoAnswer]
\* no ResolvedQuery
NoPlan ==
    [kind |-> "none", category |-> None, index_name |-> None,
     key_value |-> None, key_prefix |-> NoPrefix, key |-> None]

NewTask(opname, c, k) ==
    [op |-> opname, pc |-> "idle", status |-> "ok",
     cat |-> c, key |-> k, to |-> None, ttl |-> NoTtl, optcat |-> None, optkey |-> None,
     incl |-> FALSE,
     item |-> NoDoc,      \* the item a lifecycle handler loaded
     wrote |-> NoDoc,     \* the document handed to put_item
     doc |-> NoDoc,       \* the document parsed from the LLM's answer
     ns |-> None,         \* the namespace parameter of an MCP call
     text |-> <<>>,       \* the text handed to strip_markdown_fences
     out |-> <<>>,        \* what strip_markdown_fences returned
     backend |-> [table_name |-> server.table_name],
                          \* the backend resolve_backend gave an MCP call
     answer |-> NoAnswer, \* what describe_schema answered
     result |-> NoResult, \* what has_schema or get_schema returned
     ret |-> <<>>,        \* the items returned to the caller
     cats |-> <<>>,
     items |-> <<>>,      \* the items a read or a prune scan got from the backend
     n |-> 0, deleted |-> {},
     i |-> 0, force |-> FALSE,
     calls |-> <<>>,      \* the schema and index calls issued
     errs |-> <<>>,       \* the calls of the bootstrap that answered with an error
     writes |-> <<>>,     \* the item writes a promote has completed
     stage |-> "start",
     plan |-> NoPlan,     \* the ResolvedQuery a natural-language recall executes
     broadened |-> FALSE, \* the is_fallback flag execute_with_fallback returned
     prog |-> <<>>,       \* the awaits a tool call has still to make, in order
     pre |-> store, preSchemas |-> schemas, preIndexes |-> indexes, t0 |-> now, tw |-> now]

Idle(p) == task[p].pc = "idle"
CanStart(p) == Idle(p) /\ ops < MaxOps
Done(t, st) == [t EXCEPT !.pc = "idle", !.status = st]
SetTask(p, t) == task' = [task EXCEPT ![p] = t]

\* the backend's item writes; last remembers, per (category, key), the
\* document of the most recent put_item (NoDoc after a delete_item)
Put(doc) ==
    /\ store' = put_item(store, doc)
    /\ last' = [last EXCEPT ![<<doc["category"], doc["key"]>>] = doc]
Del(c, k) ==
    /\ store' = delete_item(store, c, k)
    /\ last' = [last EXCEPT ![<<c, k>>] = NoDoc]
NoWrite == UNCHANGED <<store, last>>

Init ==
    /\ store = {}
    /\ tables = [n \in NamespaceTables |-> {}]
    /\ server = [table_name |-> resolve_table_name(None), default_namespace |-> None]
    /\ locks = [client |-> 0, backend |-> 0, in_flight |-> {}]
    /\ last = [ck \in AllCats \X KeyUniverse |-> NoDoc]
    /\ \/ schemas = NoSchemas /\ indexes = {}
       \/ /\ schemas = [c \in AllCats |-> IF c \in PredefinedNames THEN "lenient" ELSE "none"]
          /\ indexes = UNION {IndexesCreated({}, c, NoFault) : c \in PredefinedNames}
    /\ now = StartNow
    /\ task = [p \in Procs |-> [NewTask("none", None, None) EXCEPT !.pre = {}]]
    /\ ops = 0
    /\ ticks = 0
    /\ faults = 0

\* the clock advances
Tick ==
    /\ ticks < MaxTicks
    /\ \E d \in TickSteps : now' = now + d
    /\ ticks' = ticks + 1
    /\ UNCHANGED <<store, last, schemas, indexes, task, ops, faults, tables, server, locks>>

(***************************************************************************)
(* MCP tools (mcp.rs).                                                     *)
(***************************************************************************)
Yesterday == (StartNow \div DaySecs) - 1

McpStoreRequests ==
    {[category |-> "notes", key |-> "a1", attributes |-> [content |-> "x"], ttl |-> NoTtl],
     [category |-> "notes", key |-> "a1", attributes |-> [topic |-> "t"], ttl |-> <<"1", "h">>],
     [category |-> "notes", key |-> "b1", attributes |-> [content |-> "y"], ttl |-> <<"1", "h">>],
     [category |-> "notes", key |-> "b1",
      attributes |-> [content |-> "y", expires_at |-> NotATimestamp], ttl |-> NoTtl],
     [category |-> "notes", key |-> "b1",
      attributes |-> [content |-> "x", expires_at |-> DaySecs, created_at |-> 0], ttl |-> NoTtl],
     [category |-> "notes", key |-> "a1",
      attributes |-> [content |-> "x", category |-> "scratchpad", key |-> "b1"], ttl |-> NoTtl],
     [category |-> "notes", key |-> "a1", attributes |-> [content |-> "x"], ttl |-> <<"5", "x">>],
     [category |-> "scratchpad", key |-> "a1", attributes |-> [content |-> "x"], ttl |-> NoTtl],
     [category |-> "scratchpad", key |-> "b1", attributes |-> [content |-> "y"], ttl |-> <<"1", "h">>],
     [category |-> "sessions", key |-> "a1", attributes |-> [content |-> "x"], ttl |-> NoTtl],
     [category |-> "sessions", key |-> "b1", attributes |-> [content |-> "y"], ttl |-> <<"1", "h">>],
     [category |-> "interactions", key |-> "a1", attributes |-> [content |-> "x"], ttl |-> NoTtl],
     [category |-> "events", key |-> "a1",
      attributes |-> [content |-> "x", date |-> Yesterday], ttl |-> NoTtl],
     [category |-> "events", key |-> "b1",
      attributes |-> [content |-> "y", date |-> NotADate], ttl |-> NoTtl]}

\* memory_store, the document: {category, key}, every attribute merged in,
\* created_at, then the TTL (explicit > category default)
McpStoreDoc(req, t) ==
    LET base == [category |-> req.category, key |-> req.key]
        merged == CopyAttrs(base, req.attributes, {})
    IN  PutAttr(merged, "created_at", t)

McpStoreTtl(req, doc, t) ==
    IF req.ttl # NoTtl
    THEN PutAttr(doc, "expires_at", compute_expires_at(t, parse_ttl(req.ttl).secs))
    ELSE IF req.category = "scratchpad"
    THEN PutAttr(doc, "expires_at", compute_expires_at(t, SCRATCHPAD_DEFAULT_TTL))
    ELSE IF req.category = "sessions"
    THEN PutAttr(doc, "expires_at", compute_expires_at(t, SESSIONS_DEFAULT_TTL))
    ELSE IF req.category = "interactions"
    THEN PutAttr(doc, "expires_at", compute_expires_at(t, INTERACTIONS_DEFAULT_TTL))
    ELSE doc

\* memory_store
McpStore(p, reqs) ==
    /\ CanStart(p)
    /\ \E req \in reqs :
      \E f \in FaultChoices(IF req.ttl # NoTtl /\ ~parse_ttl(req.ttl).ok THEN {}
                            ELSE {<<"putItem", "">>}) :
        LET t == [NewTask("mcp_store", req.category, req.key) EXCEPT !.ttl = req.ttl]
            doc == McpStoreTtl(req, McpStoreDoc(req, now), now)
        IN  /\ Charge(f)
            /\ IF req.ttl # NoTtl /\ parse_ttl(req.ttl).panic
               THEN /\ SetTask(p, Done(t, "panic"))
                    /\ NoWrite
               ELSE IF req.ttl # NoTtl /\ ~parse_ttl(req.ttl).ok
               THEN /\ SetTask(p, Done(t, "invalid_params"))
                    /\ NoWrite
               ELSE IF f # NoFault
               THEN /\ SetTask(p, Done([t EXCEPT !.wrote = doc], "err"))
                    /\ NoWrite
               ELSE /\ SetTask(p, Done([t EXCEPT !.wrote = doc], "ok"))
                    /\ Put(doc)
    /\ ops' = ops + 1
    /\ UNCHANGED <<schemas, indexes, now, ticks, tables, server, locks>>

ReadCats == {"notes", "scratchpad", "events"}
ReadKeys == {"a1", "b1"}
Limits == {1, 20}
Prefixes == {NoPrefix, "a"}

\* memory_get
McpGet(p) ==
    /\ CanStart(p)
    /\ \E c \in ReadCats, k \in ReadKeys :
        LET t == NewTask("mcp_get", c, k)
            item == get_item(store, c, k)
            t1 == [t EXCEPT !.items = IF IsDoc(item) THEN <<item>> ELSE <<>>]
        IN  IF IsDoc(item) /\ ~is_expired(item, now)
            THEN SetTask(p, Done([t1 EXCEPT !.ret = <<item>>], "ok"))
            ELSE SetTask(p, Done(t1, "not_found"))
    /\ ops' = ops + 1
    /\ UNCHANGED <<store, last, schemas, indexes, now, ticks, faults, tables, server, locks>>

\* memory_query
McpQuery(p) ==
    /\ CanStart(p)
    /\ \E c \in ReadCats, pfx \in Prefixes, limit \in Limits :
        LET t == NewTask("mcp_query", c, None)
            items == query(store, c, pfx, limit)
        IN  SetTask(p, Done([t EXCEPT !.items = items,
                                      !.ret = filter_expired(items, now)], "ok"))
    /\ ops' = ops + 1
    /\ UNCHANGED <<store, last, schemas, indexes, now, ticks, faults, tables, server, locks>>

\* memory_list with a category: the keys of the unexpired items
McpList(p) ==
    /\ CanStart(p)
    /\ \E c \in ReadCats :
        LET t == NewTask("mcp_list", c, None)
            items == query(store, c, NoPrefix, 100)
        IN  SetTask(p, Done([t EXCEPT !.items = items,
                                      !.ret = filter_expired(items, now)], "ok"))
    /\ ops' = ops + 1
    /\ UNCHANGED <<store, last, schemas, indexes, now, ticks, faults, tables, server, locks>>


\* memory_delete
McpDelete(p) ==
    /\ CanStart(p)
    /\ \E c \in ReadCats, k \in ReadKeys, f \in FaultChoices({<<"deleteItem", "">>}) :
        LET t == NewTask("mcp_delete", c, k)
        IN  /\ Charge(f)
            /\ IF f # NoFault
               THEN SetTask(p, Done(t, "err")) /\ NoWrite
               ELSE SetTask(p, Done(t, "ok")) /\ Del(c, k)
    /\ ops' = ops + 1
    /\ UNCHANGED <<schemas, indexes, now, ticks, tables, server, locks>>

(***************************************************************************)
(* Schema bootstrap (backend.rs ensure_predefined_schemas, schema.rs       *)
(* create_schema_with_indexes) and the CLI's auto_init.                    *)
(***************************************************************************)
\* create_schema_with_indexes, were a failing create_index returned with ?
create_schema_with_indexes_index_fatal(sch, idx, c, mode, f) ==
    IF f = <<"createSchema", "">>
    THEN [ok |-> FALSE, schemas |-> sch, indexes |-> idx,
          calls |-> <<Call("createSchema", c, mode)>>]
    ELSE [ok |-> f[1] # "createIndex",
          schemas |-> [sch EXCEPT ![c] = mode],
          indexes |-> idx \cup IndexesCreated(idx, c, f),
          calls |-> <<Call("createSchema", c, mode)>> \o CreateIndexCalls(c)]
\* create_schema_with_indexes(category, definition, validate) with fault f:
\* Err when create_schema fails, else the schema and the indexes it could add
create_schema_with_indexes(sch, idx, c, mode, f) ==
    IF f = <<"createSchema", "">>
    THEN [ok |-> FALSE, schemas |-> sch, indexes |-> idx,
          calls |-> <<Call("createSchema", c, mode)>>]
    ELSE [ok |-> TRUE,
          schemas |-> [sch EXCEPT ![c] = mode],
          indexes |-> idx \cup IndexesCreated(idx, c, f),
          calls |-> <<Call("createSchema", c, mode)>> \o CreateIndexCalls(c)]

\* the loop body, were the has_schema test left out
ensure_one_no_skip(sch, idx, c, f) ==
    IF f = <<"describeSchema", "">>
    THEN [ok |-> FALSE, schemas |-> sch, indexes |-> idx, calls |-> <<>>]
    ELSE create_schema_with_indexes(sch, idx, c, "lenient", f)
\* the loop body, were validate passed as true
ensure_one_strict(sch, idx, c, f) ==
    IF f = <<"describeSchema", "">>
    THEN [ok |-> FALSE, schemas |-> sch, indexes |-> idx, calls |-> <<>>]
    ELSE IF has_schema(sch, c)
    THEN [ok |-> TRUE, schemas |-> sch, indexes |-> idx, calls |-> <<>>]
    ELSE create_schema_with_indexes(sch, idx, c, "strict", f)
\* the body of ensure_predefined_schemas's loop for catalog entry c
ensure_one(sch, idx, c, f) ==
    IF f = <<"describeSchema", "">>
    THEN [ok |-> FALSE, schemas |-> sch, indexes |-> idx, calls |-> <<>>]
    ELSE IF has_schema(sch, c)
    THEN [ok |-> TRUE, schemas |-> sch, indexes |-> idx, calls |-> <<>>]
    ELSE create_schema_with_indexes(sch, idx, c, "lenient", f)

\* where a handler goes on when its ensure_predefined_schemas returned Ok
AfterEnsure(t) ==
    CASE t.op \in {"cli_init", "mcp_init"} -> Done(t, "ok")
      [] t.op \in {"cli_remember", "prompt_remember"} -> [t EXCEPT !.pc = "body"]
      [] t.op = "cli_promote" -> [t EXCEPT !.pc = "reparse"]
      [] OTHER -> Done(t, "ok")

\* one iteration of ensure_predefined_schemas
EnsureStep(p) ==
    /\ task[p].pc = "ensure"
    /\ LET t == task[p]
           c == PREDEFINED_SCHEMAS[t.i]
           points == IF has_schema(schemas, c) THEN {<<"describeSchema", "">>}
                     ELSE EnsureFaultPoints(c)
       IN  \E f \in FaultChoices(points) :
            LET r == ensure_one(schemas, indexes, c, f)
                t2 == [t EXCEPT !.calls = t.calls \o r.calls, !.i = t.i + 1,
                                !.errs = IF f = NoFault THEN t.errs
                                         ELSE Append(t.errs, Call(f[1], c, f[2]))]
            IN  /\ Charge(f)
                /\ schemas' = r.schemas
                /\ indexes' = r.indexes
                /\ SetTask(p, IF ~r.ok THEN Done(t2, "err")
                              ELSE IF t.i = Len(PREDEFINED_SCHEMAS) THEN AfterEnsure(t2)
                              ELSE t2)
    /\ UNCHANGED <<store, last, now, ops, ticks, tables, server, locks>>

\* auto_init: bootstrap only when list_schemas shows no schema at all
\* (a failing list_schemas counts as none: unwrap_or_default)
AutoInitStep(p) ==
    /\ task[p].pc = "auto_init"
    /\ \E f \in FaultChoices({<<"listSchemas", "">>}) :
        LET listed == IF f = NoFault THEN list_schemas(schemas) ELSE <<>>
        IN  /\ Charge(f)
            /\ SetTask(p, IF listed = <<>> THEN [task[p] EXCEPT !.pc = "ensure", !.i = 1]
                          ELSE AfterEnsure(task[p]))
    /\ UNCHANGED <<store, last, schemas, indexes, now, ops, ticks, tables, server, locks>>

\* init --force / memory_init force: per catalog entry, drop the schema, then
\* every listed index of that partition schema; every error is ignored
ForceStep(p) ==
    /\ task[p].pc = "force"
    /\ LET t == task[p]
           c == PREDEFINED_SCHEMAS[t.i]
           own == {n \in indexes : n.partition_schema = c}
       IN  \E f \in FaultChoices({<<"dropSchema", "">>, <<"listIndexes", "">>}
                                   \cup {<<"dropIndex", n.name>> : n \in own}) :
            LET kept == IF f = <<"listIndexes", "">> THEN own
                        ELSE {n \in own : f = <<"dropIndex", n.name>>}
                log == <<Call("dropSchema", c, "")>> \o
                       (IF f = <<"listIndexes", "">> THEN <<>>
                        ELSE [j \in 1..Cardinality(own) |-> Call("dropIndex", c, "")])
            IN  /\ Charge(f)
                /\ schemas' = IF f = <<"dropSchema", "">> THEN schemas
                              ELSE [schemas EXCEPT ![c] = "none"]
                /\ indexes' = (indexes \ own) \cup kept
                /\ SetTask(p, IF t.i = Len(PREDEFINED_SCHEMAS)
                              THEN [t EXCEPT !.calls = t.calls \o log, !.pc = "ensure", !.i = 1]
                              ELSE [t EXCEPT !.calls = t.calls \o log, !.i = t.i + 1])
    /\ UNCHANGED <<store, last, now, ops, ticks, tables, server, locks>>

\* the caller's previous handler was an init that returned Ok
EnsuredJust(p) ==
    task[p].op \in {"cli_init", "mcp_init"} /\ Idle(p) /\ task[p].status = "ok"

\* fmemory init [--force] and memory_init
InitSchemas(p) ==
    /\ CanStart(p)
    /\ \E surface \in {"cli_init", "mcp_init"}, force \in BOOLEAN :
        SetTask(p, [NewTask(surface, None, None) EXCEPT
                        !.pc = IF force THEN "force" ELSE "ensure", !.i = 1, !.force = force,
                        !.stage = IF EnsuredJust(p) THEN "again" ELSE "start"])
    /\ ops' = ops + 1
    /\ UNCHANGED <<store, last, schemas, indexes, now, ticks, faults, tables, server, locks>>

\* fmemory define --category C: a strict schema for a category of the user's;
\* the engine either rejects a second schema for the prefix or replaces it
DefineCats == {"sessions"}
CliDefine(p) ==
    /\ CanStart(p)
    /\ \E c \in DefineCats, f \in FaultChoices({<<"createSchema", "">>}), replaces \in BOOLEAN :
        LET r == create_schema_with_indexes(schemas, indexes, c, "strict", f)
            t == [NewTask("cli_define", c, None) EXCEPT !.calls = r.calls]
            rejected == has_schema(schemas, c) /\ ~replaces
        IN  /\ Charge(f)
            /\ (~has_schema(schemas, c) => replaces)
            /\ schemas' = IF rejected THEN schemas ELSE r.schemas
            /\ indexes' = IF rejected THEN indexes ELSE r.indexes
            /\ SetTask(p, Done(t, IF r.ok /\ ~rejected THEN "ok" ELSE "err"))
    /\ ops' = ops + 1
    /\ UNCHANGED <<store, last, now, ticks, tables, server, locks>>


(***************************************************************************)
(* CLI store paths (cli.rs): remember, and the -p prompt flow.             *)
(***************************************************************************)
\* a category field whose JSON value is not a string
NotAStringCategory == "*notastring*"
\* what the LLM's document parser may answer (any JSON object)
LlmDocs ==
    {[key |-> "a1", content |-> "x"],
     [key |-> "a1", content |-> "y", date |-> Yesterday, category |-> "events"],
     [key |-> "b1", content |-> "y", date |-> NotADate, category |-> "scratchpad"],
     [content |-> "x", category |-> "sessions"],
     [key |-> "b1", content |-> "x", expires_at |-> DaySecs, created_at |-> 0],
     [key |-> "a1", content |-> "x", category |-> NotAStringCategory]}

CliRememberRequests ==
    {[category |-> None, key |-> None, ttl |-> NoTtl],
     [category |-> "notes", key |-> None, ttl |-> NoTtl],
     [category |-> "notes", key |-> "b1", ttl |-> <<"1", "h">>],
     [category |-> "notes", key |-> None, ttl |-> <<"0", "h">>],
     [category |-> "scratchpad", key |-> None, ttl |-> NoTtl],
     [category |-> "events", key |-> None, ttl |-> NoTtl],
     [category |-> "sessions", key |-> None, ttl |-> NoTtl]}

\* doc["key"].as_str().unwrap_or("unknown"), doc["category"].as_str().unwrap_or("notes")
ParsedKey(doc) == IF Has(doc, "key") THEN doc["key"] ELSE "unknown"
ChosenCategory(doc) ==
    IF Has(doc, "category") /\ doc["category"] # NotAStringCategory
    THEN doc["category"] ELSE "notes"

\* the final item: {category, key}, the parsed attributes except those two, created_at
CliFinalItem(c, k, doc, t) ==
    PutAttr(CopyAttrs([category |-> c, key |-> k], doc, {"key", "category"}), "created_at", t)

\* remember: --ttl, else scratchpad's default, else the events date
CliRememberTtl(c, ttl, item, t) ==
    IF ttl # NoTtl
    THEN PutAttr(item, "expires_at", compute_expires_at(t, parse_ttl(ttl).secs))
    ELSE IF c = "scratchpad"
    THEN PutAttr(item, "expires_at", compute_expires_at(t, SCRATCHPAD_DEFAULT_TTL))
    ELSE IF c = "events" /\ HasIsoDate(item)
    THEN PutAttr(item, "expires_at", auto_ttl_from_date(item))
    ELSE item

\* the prompt flow: scratchpad's default, else the events date
PromptTtl(c, item, t) ==
    IF c = "scratchpad"
    THEN PutAttr(item, "expires_at", compute_expires_at(t, SCRATCHPAD_DEFAULT_TTL))
    ELSE IF c = "events" /\ HasIsoDate(item)
    THEN PutAttr(item, "expires_at", auto_ttl_from_date(item))
    ELSE item

\* fmemory remember: starts with auto_init
CliRemember(p, reqs) ==
    /\ CanStart(p)
    /\ \E req \in reqs :
        SetTask(p, [NewTask("cli_remember", None, None) EXCEPT
                        !.pc = "auto_init", !.optcat = req.category,
                        !.optkey = req.key, !.ttl = req.ttl])
    /\ ops' = ops + 1
    /\ UNCHANGED <<store, last, schemas, indexes, now, ticks, faults, tables, server, locks>>

\* fmemory -p <text>, classified as Remember: starts with auto_init
PromptRemember(p) ==
    /\ CanStart(p)
    /\ SetTask(p, [NewTask("prompt_remember", None, None) EXCEPT !.pc = "auto_init"])
    /\ ops' = ops + 1
    /\ UNCHANGED <<store, last, schemas, indexes, now, ticks, faults, tables, server, locks>>

\* remember after auto_init: category check or LLM choice, parse, compose, put
RememberBody(p) ==
    /\ task[p].pc = "body"
    /\ task[p].op = "cli_remember"
    /\ \E doc \in LlmDocs, f \in FaultChoices({<<"call", "">>}) :
        LET t == task[p]
            c == IF t.optcat # None THEN t.optcat ELSE ChosenCategory(doc)
            k == IF t.optkey # None THEN t.optkey ELSE ParsedKey(doc)
            item == CliRememberTtl(c, t.ttl, CliFinalItem(c, k, doc, now), now)
            t2 == [t EXCEPT !.cat = c, !.key = k, !.tw = now, !.doc = doc]
        IN  /\ Charge(f)
            /\ IF t.optcat # None /\ ~has_schema(schemas, t.optcat)
               THEN SetTask(p, Done(t2, "unknown_category")) /\ NoWrite
               ELSE IF f # NoFault
               THEN SetTask(p, Done(t2, "err")) /\ NoWrite
               ELSE IF t.ttl # NoTtl /\ parse_ttl(t.ttl).panic
               THEN SetTask(p, Done(t2, "panic")) /\ NoWrite
               ELSE IF t.ttl # NoTtl /\ ~parse_ttl(t.ttl).ok
               THEN SetTask(p, Done(t2, "invalid_params")) /\ NoWrite
               ELSE /\ SetTask(p, Done([t2 EXCEPT !.wrote = item], "ok"))
                    /\ Put(item)
    /\ UNCHANGED <<schemas, indexes, now, ops, ticks, tables, server, locks>>

\* the prompt flow after auto_init and classify_intent: LLM choice, compose, put
PromptBody(p) ==
    /\ task[p].pc = "body"
    /\ task[p].op = "prompt_remember"
    /\ \E doc \in LlmDocs, f \in FaultChoices({<<"call", "">>}) :
        LET t == task[p]
            c == ChosenCategory(doc)
            k == ParsedKey(doc)
            item == PromptTtl(c, CliFinalItem(c, k, doc, now), now)
            t2 == [t EXCEPT !.cat = c, !.key = k, !.tw = now, !.doc = doc]
        IN  /\ Charge(f)
            /\ IF f # NoFault
               THEN SetTask(p, Done(t2, "err")) /\ NoWrite
               ELSE /\ SetTask(p, Done([t2 EXCEPT !.wrote = item], "ok"))
                    /\ Put(item)
    /\ UNCHANGED <<schemas, indexes, now, ops, ticks, tables, server, locks>>

\* fmemory forget
CliForget(p) ==
    /\ CanStart(p)
    /\ \E c \in ReadCats, k \in ReadKeys, f \in FaultChoices({<<"deleteItem", "">>}) :
        LET t == NewTask("cli_forget", c, k)
        IN  /\ Charge(f)
            /\ IF f # NoFault
               THEN SetTask(p, Done(t, "err")) /\ NoWrite
               ELSE SetTask(p, Done(t, "ok")) /\ Del(c, k)
    /\ ops' = ops + 1
    /\ UNCHANGED <<schemas, indexes, now, ticks, tables, server, locks>>


(***************************************************************************)
(* CLI reads (cli.rs): recall, discover, and natural-language recall.      *)
(***************************************************************************)
\* recall --category C --key K [--include-expired]
CliRecallGet(p) ==
    /\ CanStart(p)
    /\ \E c \in ReadCats, k \in ReadKeys, incl \in BOOLEAN :
        LET t == [NewTask("cli_recall_get", c, k) EXCEPT !.incl = incl]
            item == get_item(store, c, k)
            t1 == [t EXCEPT !.items = IF IsDoc(item) THEN <<item>> ELSE <<>>]
        IN  IF IsDoc(item) /\ (incl \/ ~is_expired(item, now))
            THEN SetTask(p, Done([t1 EXCEPT !.ret = <<item>>], "ok"))
            ELSE SetTask(p, Done(t1, "not_found"))
    /\ ops' = ops + 1
    /\ UNCHANGED <<store, last, schemas, indexes, now, ticks, faults, tables, server, locks>>

\* recall --category C, and discover --category C: query(cat, None, limit)
CliScan(p) ==
    /\ CanStart(p)
    /\ \E surface \in {"cli_recall_scan", "cli_discover"},
          c \in ReadCats, limit \in Limits, incl \in BOOLEAN :
        LET t == [NewTask(surface, c, None) EXCEPT !.incl = incl]
            items == query(store, c, NoPrefix, limit)
        IN  SetTask(p, Done([t EXCEPT !.items = items,
                                      !.ret = IF incl THEN items
                                              ELSE filter_expired(items, now)], "ok"))
    /\ ops' = ops + 1
    /\ UNCHANGED <<store, last, schemas, indexes, now, ticks, faults, tables, server, locks>>

\* what resolve_query may answer (the LLM's plan)
ResolvedQueries ==
    {[kind |-> "IndexLookup", category |-> "notes", index_name |-> "notes_topic",
      key_value |-> "t", key_prefix |-> NoPrefix, key |-> None],
     [kind |-> "IndexLookup", category |-> "scratchpad", index_name |-> "scratchpad_source",
      key_value |-> "t", key_prefix |-> NoPrefix, key |-> None],
     [kind |-> "PartitionScan", category |-> "scratchpad", index_name |-> None,
      key_value |-> None, key_prefix |-> NoPrefix, key |-> None],
     [kind |-> "PartitionScan", category |-> "notes", index_name |-> None,
      key_value |-> None, key_prefix |-> "z", key |-> None],
     [kind |-> "ExactLookup", category |-> "scratchpad", index_name |-> None,
      key_value |-> None, key_prefix |-> NoPrefix, key |-> "a1"],
     [kind |-> "ExactLookup", category |-> "notes", index_name |-> None,
      key_value |-> None, key_prefix |-> NoPrefix, key |-> "unknown"]}

\* execute_resolved_query, were an ExactLookup answered by a scan of the
\* plan's category
execute_resolved_query_scan(st, idx, resolved, limit) ==
    CASE resolved.kind = "IndexLookup" ->
            query_index(st, idx, resolved.index_name, resolved.key_value, limit)
      [] OTHER ->
            [ok |-> TRUE, items |-> query(st, resolved.category, resolved.key_prefix, limit)]
\* execute_resolved_query: Ok(items) or Err
execute_resolved_query(st, idx, resolved, limit) ==
    CASE resolved.kind = "IndexLookup" ->
            query_index(st, idx, resolved.index_name, resolved.key_value, limit)
      [] resolved.kind = "PartitionScan" ->
            [ok |-> TRUE, items |-> query(st, resolved.category, resolved.key_prefix, limit)]
      [] OTHER ->
            LET item == get_item(st, resolved.category, resolved.key)
            IN  [ok |-> TRUE, items |-> IF IsDoc(item) THEN <<item>> ELSE <<>>]

\* the backend call execute_resolved_query issues for a plan
ResolvedCall(resolved) ==
    CASE resolved.kind = "IndexLookup" ->
            Call("query_index", resolved.category, resolved.index_name)
      [] resolved.kind = "PartitionScan" ->
            Call("query", resolved.category, resolved.key_prefix)
      [] OTHER -> Call("get_item", resolved.category, resolved.key)
\* matches!(resolved, PartitionScan { key_prefix: None, .. })
Unbounded(resolved) ==
    resolved.kind = "PartitionScan" /\ resolved.key_prefix = NoPrefix
\* the broadening call: query(category, None, limit)
FallbackCall(resolved) == Call("query", resolved.category, NoPrefix)

\* the backend calls that can fail in one execution
FallbackFaultPoints(st, idx, resolved, limit) ==
    LET first == execute_resolved_query(st, idx, resolved, limit)
    IN  {<<"resolved", "">>}
            \cup (IF first.ok /\ first.items = <<>> /\ ~Unbounded(resolved)
                  THEN {<<"fallback", "">>} ELSE {})

\* execute_with_fallback, were it to broaden whatever the plan
execute_with_fallback_always(st, idx, resolved, limit, f) ==
    LET first == execute_resolved_query(st, idx, resolved, limit)
        one == <<ResolvedCall(resolved)>>
    IN  IF ~first.ok \/ f = <<"resolved", "">>
        THEN [ok |-> FALSE, items |-> <<>>, is_fallback |-> FALSE, calls |-> one]
        ELSE IF first.items # <<>>
        THEN [ok |-> TRUE, items |-> first.items, is_fallback |-> FALSE, calls |-> one]
        ELSE LET fallback_items == query(st, resolved.category, NoPrefix, limit)
             IN  [ok |-> TRUE, items |-> fallback_items,
                  is_fallback |-> fallback_items # <<>>,
                  calls |-> one \o <<FallbackCall(resolved)>>]
\* execute_with_fallback: an empty answer broadens to the whole category;
\* gives Ok((items, is_fallback)) or Err, and the backend calls issued
execute_with_fallback(st, idx, resolved, limit, f) ==
    LET first == execute_resolved_query(st, idx, resolved, limit)
        one == <<ResolvedCall(resolved)>>
        two == one \o <<FallbackCall(resolved)>>
    IN  IF ~first.ok \/ f = <<"resolved", "">>
        THEN [ok |-> FALSE, items |-> <<>>, is_fallback |-> FALSE, calls |-> one]
        ELSE IF first.items # <<>>
        THEN [ok |-> TRUE, items |-> first.items, is_fallback |-> FALSE, calls |-> one]
        ELSE IF Unbounded(resolved)
        THEN [ok |-> TRUE, items |-> first.items, is_fallback |-> FALSE, calls |-> one]
        ELSE IF f = <<"fallback", "">>
        THEN [ok |-> FALSE, items |-> <<>>, is_fallback |-> FALSE, calls |-> two]
        ELSE LET fallback_items == query(st, resolved.category, NoPrefix, limit)
             IN  [ok |-> TRUE, items |-> fallback_items,
                  is_fallback |-> fallback_items # <<>>, calls |-> two]

\* recall --query Q, and the -p flow classified as Recall (limit 20)
NlRecall(p) ==
    /\ CanStart(p)
    /\ \E surface \in {"cli_recall_query", "prompt_recall"}, resolved \in ResolvedQueries,
          limit \in Limits, incl \in BOOLEAN :
        LET lim == IF surface = "prompt_recall" THEN 20 ELSE limit
            t == [NewTask(surface, resolved.category, None) EXCEPT
                    !.incl = incl, !.plan = resolved, !.n = lim]
        IN  IF list_schemas(schemas) = <<>>
            THEN SetTask(p, Done(t, "no_schemas")) /\ UNCHANGED faults
            ELSE \E f \in FaultChoices(FallbackFaultPoints(store, indexes, resolved, lim)) :
                LET r == execute_with_fallback(store, indexes, resolved, lim, f)
                    t2 == [t EXCEPT !.calls = r.calls, !.items = r.items,
                                    !.broadened = r.is_fallback]
                IN  /\ Charge(f)
                    /\ IF ~r.ok THEN SetTask(p, Done(t2, "err"))
                       ELSE SetTask(p, Done([t2 EXCEPT
                                !.ret = IF incl THEN r.items
                                        ELSE filter_expired(r.items, now)], "ok"))
    /\ ops' = ops + 1
    /\ UNCHANGED <<store, last, schemas, indexes, now, ticks, tables, server, locks>>


(***************************************************************************)
(* Promote (mcp.rs memory_promote, cli.rs Command::Promote).  One step per *)
(* backend call; the handler can fail or be dropped at each.               *)
(***************************************************************************)
PromoteCats == {"scratchpad", "notes"}
PromoteTargets == {None, "scratchpad", "notes", "sessions"}

Recategorizes(t) == t.to # None /\ t.to # t.cat

\* same category: clone, remove expires_at, created_at = now
\* the in-place promote, were expires_at left in
PromoteInPlaceKeepsTtl(item, t) == PutAttr(item, "created_at", t)
PromoteInPlace(item, t) == PutAttr(RemoveAttr(item, "expires_at"), "created_at", t)

\* memory_promote to another category: the item as it is, same key
McpPromoteMoved(item, to, k, t) ==
    PutAttr(CopyAttrs([category |-> to, key |-> k], item, {"key", "category", "expires_at"}),
            "created_at", t)

\* fmemory promote --to: the re-parsed document, its key or the old one
CliPromoteMoved(doc, to, k, t) ==
    LET nk == IF Has(doc, "key") THEN doc["key"] ELSE k
    IN  RemoveAttr(PutAttr(CopyAttrs([category |-> to, key |-> nk], doc, {"key", "category"}),
                           "created_at", t),
                   "expires_at")

\* the item writes a promote issues, in order
\* the re-categorizing writes, were the delete issued first
RecategorizeCallsDeleteFirst == <<"delete_item", "put_item">>
RecategorizeCalls == <<"put_item", "delete_item">>
PromoteCalls(t) == IF Recategorizes(t) THEN RecategorizeCalls ELSE <<"put_item">>

\* a promote arrives: its surface, category, key and target category
PromoteOf(p, surfaces, cats, keys, targets) ==
    /\ CanStart(p)
    /\ \E surface \in surfaces, c \in cats, k \in keys, to \in targets :
        SetTask(p, [NewTask(surface, c, k) EXCEPT !.pc = "promote_get", !.to = to])
    /\ ops' = ops + 1
    /\ UNCHANGED <<store, last, schemas, indexes, now, ticks, faults, tables, server, locks>>
Promote(p) ==
    PromoteOf(p, {"mcp_promote", "cli_promote"}, PromoteCats, ReadKeys, PromoteTargets)

\* the match on get_item's answer, were an expired item taken for None
PromoteLoadFiltered(item, t) == IF IsDoc(item) /\ is_expired(item, t) THEN NoDoc ELSE item
\* the match on get_item's answer: Some(i) => i, with no is_expired test
PromoteLoad(item, t) == item

\* get_item, then (but for the CLI's re-parse) the promoted item is composed
PromoteGet(p) ==
    /\ task[p].pc = "promote_get"
    /\ \E f \in FaultChoices({<<"getItem", "">>}) :
        LET t == task[p]
            item == PromoteLoad(get_item(store, t.cat, t.key), now)
            t2 == [t EXCEPT !.item = item, !.tw = now, !.i = 1]
        IN  /\ Charge(f)
            /\ SetTask(p,
                 IF f # NoFault THEN Done(t, "err")
                 ELSE IF ~IsDoc(item) THEN Done(t, "not_found")
                 ELSE IF ~Recategorizes(t)
                 THEN [t2 EXCEPT !.wrote = PromoteInPlace(item, now), !.pc = "promote_call"]
                 ELSE IF t.op = "mcp_promote"
                 THEN [t2 EXCEPT !.wrote = McpPromoteMoved(item, t.to, t.key, now),
                                 !.pc = "promote_call"]
                 ELSE [t2 EXCEPT !.pc = "auto_init"])
    /\ UNCHANGED <<store, last, schemas, indexes, now, ops, ticks, tables, server, locks>>

\* the CLI's re-categorize: get_schema(target), parse_to_document, compose
PromoteReparse(p) ==
    /\ task[p].pc = "reparse"
    /\ \E doc \in LlmDocs, f \in FaultChoices({<<"describeSchema", "">>, <<"llm", "">>}) :
        LET t == task[p]
        IN  /\ Charge(f)
            /\ SetTask(p,
                 IF f # NoFault THEN Done(t, "err")
                 ELSE IF ~has_schema(schemas, t.to) THEN Done(t, "schema_not_found")
                 ELSE [t EXCEPT !.wrote = CliPromoteMoved(doc, t.to, t.key, now),
                                !.tw = now, !.i = 1, !.pc = "promote_call"])
    /\ UNCHANGED <<store, last, schemas, indexes, now, ops, ticks, tables, server, locks>>

\* the next item write of the promote
PromoteCall(p) ==
    /\ task[p].pc = "promote_call"
    /\ \E f \in FaultChoices({<<"call", "">>}) :
        LET t == task[p]
            call == PromoteCalls(t)[t.i]
            t2 == [t EXCEPT !.writes = t.writes \o <<call>>, !.i = t.i + 1]
        IN  /\ Charge(f)
            /\ IF f # NoFault THEN SetTask(p, Done(t, "err")) /\ NoWrite
               ELSE /\ IF call = "put_item" THEN Put(t.wrote) ELSE Del(t.cat, t.key)
                    /\ SetTask(p, IF t.i = Len(PromoteCalls(t)) THEN Done(t2, "ok") ELSE t2)
    /\ UNCHANGED <<schemas, indexes, now, ops, ticks, tables, server, locks>>

\* the handler's future is dropped at the await it is suspended on
Cancel(p) ==
    /\ ~Idle(p)
    /\ faults < MaxFaults
    /\ faults' = faults + 1
    /\ SetTask(p, Done(task[p], "cancelled"))
    /\ UNCHANGED <<store, last, schemas, indexes, now, ops, ticks, tables, server, locks>>


(***************************************************************************)
(* Prune (mcp.rs memory_prune, cli.rs Command::Prune).  One step per       *)
(* backend call.                                                           *)
(***************************************************************************)
PRUNE_SCAN_LIMIT == 1000
PruneCats == {None, "scratchpad", "notes", "sessions"}

Prune(p) ==
    /\ CanStart(p)
    /\ \E surface \in {"mcp_prune", "cli_prune"}, c \in PruneCats :
        SetTask(p, [NewTask(surface, None, None) EXCEPT
                        !.optcat = c,
                        !.cats = IF c = None THEN <<>> ELSE <<c>>,
                        !.i = 1,
                        !.pc = IF c = None THEN "prune_list" ELSE "prune_scan"])
    /\ ops' = ops + 1
    /\ UNCHANGED <<store, last, schemas, indexes, now, ticks, faults, tables, server, locks>>

\* where prune goes once category i is done with
PruneAdvance(t) ==
    IF t.i > Len(t.cats) THEN Done([t EXCEPT !.tw = now], "ok")
    ELSE [t EXCEPT !.pc = "prune_scan"]

\* no category given: the prefixes list_schemas reports; memory_prune gives
\* the error back, the CLI takes a failed listing for an empty one
PruneList(p) ==
    /\ task[p].pc = "prune_list"
    /\ \E f \in FaultChoices({<<"listSchemas", "">>}) :
        LET t == task[p]
            listed == IF f = NoFault THEN list_schemas(schemas) ELSE <<>>
        IN  /\ Charge(f)
            /\ SetTask(p, IF f # NoFault /\ t.op = "mcp_prune" THEN Done(t, "err")
                          ELSE PruneAdvance([t EXCEPT !.cats = listed]))
    /\ UNCHANGED <<store, last, schemas, indexes, now, ops, ticks, tables, server, locks>>

\* query(cat, None, 1000)
PruneScan(p) ==
    /\ task[p].pc = "prune_scan"
    /\ \E f \in FaultChoices({<<"query", "">>}) :
        LET t == task[p]
            items == query(store, t.cats[t.i], NoPrefix, PRUNE_SCAN_LIMIT)
        IN  /\ Charge(f)
            /\ SetTask(p, IF f # NoFault THEN Done(t, "err")
                          ELSE IF items = <<>> THEN PruneAdvance([t EXCEPT !.i = t.i + 1])
                          ELSE [t EXCEPT !.items = items, !.pc = "prune_item"])
    /\ UNCHANGED <<store, last, schemas, indexes, now, ops, ticks, tables, server, locks>>

\* the next scanned item: deleted when is_expired says so
PruneItem(p) ==
    /\ task[p].pc = "prune_item"
    /\ LET t == task[p]
           item == Head(t.items)
           rest == Tail(t.items)
           on(t2) == IF rest = <<>> THEN PruneAdvance([t2 EXCEPT !.items = rest, !.i = t.i + 1])
                     ELSE [t2 EXCEPT !.items = rest]
       IN  IF ~is_expired(item, now)
           THEN /\ SetTask(p, on(t))
                /\ NoWrite
                /\ UNCHANGED faults
           ELSE \E f \in FaultChoices({<<"deleteItem", "">>}) :
                  /\ Charge(f)
                  /\ IF f # NoFault THEN SetTask(p, Done(t, "err")) /\ NoWrite
                     ELSE /\ Del(t.cats[t.i], item["key"])
                          /\ SetTask(p, on([t EXCEPT !.n = t.n + 1,
                                                     !.deleted = t.deleted \cup {item}]))
    /\ UNCHANGED <<schemas, indexes, now, ops, ticks, tables, server, locks>>

(***************************************************************************)
(* The facade's item calls, issued directly (backend.rs).                  *)
(***************************************************************************)
BackendDocs ==
    {[category |-> "notes", key |-> "a1", content |-> "x"],
     [category |-> "notes", key |-> "a1", topic |-> "t"],
     [category |-> "notes", key |-> "a1", content |-> "y", topic |-> "t", expires_at |-> DaySecs],
     [category |-> "notes", key |-> "b1", content |-> "x"],
     [category |-> "scratchpad", key |-> "a1", content |-> "y"],
     [category |-> "scratchpad", key |-> "a1", source |-> "s", created_at |-> 0]}

BackendPut(p) ==
    /\ CanStart(p)
    /\ \E doc \in BackendDocs, f \in FaultChoices({<<"putItem", "">>}) :
        LET t == [NewTask("put_item", doc["category"], doc["key"]) EXCEPT !.wrote = doc]
        IN  /\ Charge(f)
            /\ IF f # NoFault THEN SetTask(p, Done(t, "err")) /\ NoWrite
               ELSE SetTask(p, Done(t, "ok")) /\ Put(doc)
    /\ ops' = ops + 1
    /\ UNCHANGED <<schemas, indexes, now, ticks, tables, server, locks>>

BackendGet(p) ==
    /\ CanStart(p)
    /\ \E c \in {"notes", "scratchpad"}, k \in ReadKeys :
        LET t == NewTask("get_item", c, k)
            item == get_item(store, c, k)
        IN  SetTask(p, Done([t EXCEPT !.item = item,
                                      !.ret = IF IsDoc(item) THEN <<item>> ELSE <<>>], "ok"))
    /\ ops' = ops + 1
    /\ UNCHANGED <<store, last, schemas, indexes, now, ticks, faults, tables, server, locks>>

BackendDelete(p) ==
    /\ CanStart(p)
    /\ \E c \in {"notes", "scratchpad"}, k \in ReadKeys, f \in FaultChoices({<<"deleteItem", "">>}) :
        LET t == NewTask("delete_item", c, k)
        IN  /\ Charge(f)
            /\ IF f # NoFault THEN SetTask(p, Done(t, "err")) /\ NoWrite
               ELSE SetTask(p, Done(t, "ok")) /\ Del(c, k)
    /\ ops' = ops + 1
    /\ UNCHANGED <<schemas, indexes, now, ticks, tables, server, locks>>


(***************************************************************************)
(* Specifications.  One caller issues the handlers one after another; the  *)
(* clock, backend errors and cancellation interleave with its steps.       *)
(***************************************************************************)
Next ==
    \/ Tick
    \/ McpStore(1, McpStoreRequests)
    \/ McpGet(1) \/ McpQuery(1) \/ McpList(1) \/ McpDelete(1)
    \/ CliRemember(1, CliRememberRequests) \/ RememberBody(1)
    \/ PromptRemember(1) \/ PromptBody(1)
    \/ CliForget(1)
    \/ CliRecallGet(1) \/ CliScan(1) \/ NlRecall(1)
    \/ InitSchemas(1) \/ ForceStep(1) \/ EnsureStep(1) \/ AutoInitStep(1)
    \/ CliDefine(1)
    \/ Promote(1) \/ PromoteGet(1) \/ PromoteReparse(1) \/ PromoteCall(1)
    \/ Prune(1) \/ PruneList(1) \/ PruneScan(1) \/ PruneItem(1)
    \/ Cancel(1)

Spec == Init /\ [][Next]_vars

\* the facade's item calls alone
BackendNext == BackendPut(1) \/ BackendGet(1) \/ BackendDelete(1)
BackendSpec == Init /\ [][BackendNext]_vars

\* every store path
StoreNext ==
    \/ McpStore(1, McpStoreRequests)
    \/ CliRemember(1, CliRememberRequests) \/ RememberBody(1)
    \/ PromptRemember(1) \/ PromptBody(1)
    \/ AutoInitStep(1) \/ EnsureStep(1)
StoreSpec == Init /\ [][StoreNext]_vars

\* stores with a short or a supplied expiry, the clock, and every read
ReadStoreRequests ==
    {r \in McpStoreRequests :
        \/ r.ttl = <<"1", "h">> /\ r.category \in {"notes", "scratchpad"}
        \/ Has(r.attributes, "expires_at")}
ReadNext ==
    \/ Tick
    \/ McpStore(1, ReadStoreRequests)
    \/ McpGet(1) \/ McpQuery(1) \/ McpList(1)
    \/ CliRecallGet(1) \/ CliScan(1) \/ NlRecall(1)
ReadSpec == Init /\ [][ReadNext]_vars

\* stores, the clock, and promote
PromoteStoreRequests ==
    {r \in McpStoreRequests :
        \/ r.ttl = <<"1", "h">> /\ r.category \in {"notes", "scratchpad"}
        \/ r.ttl = NoTtl /\ r.category = "scratchpad"
        \/ Has(r.attributes, "created_at")}
PromoteNext ==
    \/ Tick
    \/ McpStore(1, PromoteStoreRequests)
    \/ Promote(1) \/ PromoteGet(1) \/ PromoteReparse(1) \/ PromoteCall(1)
    \/ AutoInitStep(1) \/ EnsureStep(1)
    \/ Cancel(1)
PromoteSpec == Init /\ [][PromoteNext]_vars

\* stores, the clock, and prune
PruneStoreRequests ==
    {r \in McpStoreRequests :
        \/ r.ttl = <<"1", "h">> /\ r.category \in {"notes", "scratchpad", "sessions"} /\ r.key = "b1"
        \/ r.ttl = NoTtl /\ r.category = "scratchpad"
        \/ Has(r.attributes, "expires_at")}
PruneNext ==
    \/ Tick
    \/ McpStore(1, PruneStoreRequests)
    \/ Prune(1) \/ PruneList(1) \/ PruneScan(1) \/ PruneItem(1)
    \/ Cancel(1)
PruneSpec == Init /\ [][PruneNext]_vars

\* the schema catalog: init, define, and the first-use bootstrap of remember
SchemaNext ==
    \/ InitSchemas(1) \/ ForceStep(1) \/ EnsureStep(1)
    \/ CliDefine(1)
    \/ Cancel(1)
SchemaSpec == Init /\ [][SchemaNext]_vars


(***************************************************************************)
(* Properties.                                                             *)
(***************************************************************************)
\* expires_at is a timestamp before t
ExpiredAt(d, t) ==
    Has(d, "expires_at") /\ d["expires_at"] # NotATimestamp /\ d["expires_at"] < t

ReadOps ==
    {"mcp_get", "mcp_query", "mcp_list", "cli_recall_get", "cli_recall_scan",
     "cli_discover", "cli_recall_query", "prompt_recall"}
Returned(t) == {t.ret[j] : j \in 1..Len(t.ret)}

\* C1: a read without the include-expired flag returns no item whose
\* expires_at is a timestamp before the time of the read, and a read leaves
\* the store as it found it (expired items included).
C1_ReadsHideExpiredAndKeepThem ==
    LET t == task[1]
    IN  t.op \in ReadOps =>
            /\ ~t.incl => \A d \in Returned(t) : ~ExpiredAt(d, t.t0)
            /\ Returned(t) \subseteq store
            /\ store = t.pre

\* C1 witness: a read that returned an item of a category and held back an
\* expired one that is still in the store
C1_Witness ==
    LET t == task[1]
    IN  /\ t.op \in ReadOps
        /\ ~t.incl
        /\ t.ret # <<>>
        /\ \E d \in store : d["category"] = t.cat /\ ExpiredAt(d, t.t0) /\ d \notin Returned(t)

StoreOps == {"mcp_store", "cli_remember", "prompt_remember"}
Stored(t) == t.op \in StoreOps /\ t.pc = "idle" /\ t.status = "ok" /\ IsDoc(t.wrote)

\* the expiry the TTL policy gives an item written at t.tw
PolicyExpiry(t) ==
    IF t.ttl # NoTtl THEN <<t.tw + parse_ttl(t.ttl).secs>>
    ELSE IF t.cat = "scratchpad" THEN <<t.tw + 24 * HourSecs>>
    ELSE IF t.cat = "sessions" THEN <<t.tw + 7 * DaySecs>>
    ELSE IF t.cat = "interactions" THEN <<t.tw + 90 * DaySecs>>
    ELSE IF t.cat = "events" /\ HasIsoDate(t.wrote)
    THEN <<t.wrote["date"] * DaySecs + 23 * HourSecs + 59 * 60 + 59>>
    ELSE <<>>

\* C3: on every store path the written item's expires_at is now + ttl for an
\* explicit ttl, else now + 24h / 7d / 90d for scratchpad / sessions /
\* interactions, else the end of the day of an events item's date, else absent.
C3_TtlPriorityOnEveryStorePath ==
    LET t == task[1]
    IN  Stored(t) =>
            IF PolicyExpiry(t) = <<>> THEN ~Has(t.wrote, "expires_at")
            ELSE Has(t.wrote, "expires_at") /\ t.wrote["expires_at"] = PolicyExpiry(t)[1]

\* C4: a store writes {category, key}, the attributes but category and key,
\* and created_at = now, under the (category, key) it was given and reports.
C4_StoredUnderReportedKey ==
    LET t == task[1]
    IN  Stored(t) =>
            /\ t.wrote["category"] = t.cat
            /\ t.wrote["key"] = t.key
            /\ t.wrote["created_at"] = t.tw
            /\ get_item(store, t.cat, t.key) = t.wrote


PromoteOps == {"mcp_promote", "cli_promote"}
Completed(t) == t.pc = "idle" /\ t.status = "ok"

\* C5: a same-category promote of an existing item rewrites it without
\* expires_at and with created_at = now, every other attribute as it was;
\* get_item then gives an item with no expires_at, and no other item changed.
C5_PromoteInPlace ==
    LET t == task[1]
    IN  (t.op \in PromoteOps /\ ~Recategorizes(t) /\ Completed(t)) =>
            /\ IsDoc(t.item)
            /\ DOMAIN t.wrote = (DOMAIN t.item \ {"expires_at"}) \cup {"created_at"}
            /\ \A x \in DOMAIN t.wrote :
                  t.wrote[x] = IF x = "created_at" THEN t.tw ELSE t.item[x]
            /\ get_item(store, t.cat, t.key) = t.wrote
            /\ ~Has(get_item(store, t.cat, t.key), "expires_at")
            /\ store \ {t.wrote} = t.pre \ {t.item}

\* C5 witness: an expiring item promoted in place, a tick after it was
\* stored, next to another item
C5_Witness ==
    LET t == task[1]
    IN  /\ t.op \in PromoteOps /\ ~Recategorizes(t) /\ Completed(t)
        /\ Has(t.item, "expires_at")
        /\ t.item["created_at"] < t.tw
        /\ Cardinality(store) = 2

OldPresent(t) == get_item(store, t.cat, t.key) = t.item
NewPresent(t) ==
    IsDoc(t.wrote) /\ get_item(store, t.wrote["category"], t.wrote["key"]) = t.wrote
NewWasThere(t) ==
    IsDoc(t.wrote) /\ get_item(t.pre, t.wrote["category"], t.wrote["key"]) = t.wrote

\* C6: a re-categorizing promote puts the new item (target category,
\* created_at = now, no expires_at) strictly before it deletes the old one:
\* completed, the old key is absent and the new item present; stopped at any
\* step, at least one of the two is present, and both only between the put
\* and the delete.
C6_RecategorizePutsBeforeDelete ==
    LET t == task[1]
    IN  (t.op \in PromoteOps /\ Recategorizes(t) /\ IsDoc(t.item)) =>
            /\ IsDoc(t.wrote) =>
                  /\ t.wrote["category"] = t.to
                  /\ ~Has(t.wrote, "expires_at")
                  /\ t.wrote["created_at"] = t.tw
            /\ OldPresent(t) \/ NewPresent(t)
            /\ t.writes = <<>> => store = t.pre
            /\ t.writes # <<>> => t.writes[1] = "put_item" /\ NewPresent(t)
            /\ Completed(t) =>
                  /\ t.writes = <<"put_item", "delete_item">>
                  /\ ~IsDoc(get_item(store, t.cat, t.key))
                  /\ NewPresent(t)
            /\ (OldPresent(t) /\ NewPresent(t) /\ ~NewWasThere(t)) => t.writes = <<"put_item">>

\* C6 witness: a re-categorizing promote dropped after its put, both items there
C6_Witness ==
    LET t == task[1]
    IN  /\ t.op \in PromoteOps /\ Recategorizes(t) /\ IsDoc(t.item)
        /\ t.pc = "idle" /\ t.status = "cancelled"
        /\ t.writes = <<"put_item">>
        /\ OldPresent(t) /\ NewPresent(t)

PruneOps == {"mcp_prune", "cli_prune"}
\* the categories a prune is about: the one given, or those with a schema
PruneTargets(t) == IF t.optcat # None THEN {t.optcat} ELSE SchemaSet(t.preSchemas)

\* C7: when a prune completes, in each target category every item that was
\* expired is deleted, every unexpired item (expires_at absent or unparseable
\* included) is unchanged, and the count is the number of items deleted.
C7_PruneDeletesExpiredOnly ==
    LET t == task[1]
    IN  (t.op \in PruneOps /\ Completed(t)) =>
            /\ \A d \in t.pre :
                  (d["category"] \in PruneTargets(t) /\ ExpiredAt(d, t.t0)) => d \notin store
            /\ \A d \in t.pre : ~ExpiredAt(d, t.tw) => d \in store
            /\ store \subseteq t.pre
            /\ t.n = Cardinality(t.pre \ store)

\* C8: when a prune without a category completes (no backend call having
\* failed), no item of the table has an expires_at that was in the past
\* when the prune began.
C8_PruneAllLeavesNoExpired ==
    LET t == task[1]
    IN  (t.op \in PruneOps /\ t.optcat = None /\ Completed(t) /\ faults = 0) =>
            \A d \in store : ~ExpiredAt(d, t.t0)


InitOps == {"cli_init", "mcp_init"}
Changing == {"createSchema", "createIndex", "dropSchema", "dropIndex"}
CallsAbout(t, c) == SelectSeq(t.calls, LAMBDA x : x.category = c)

\* C9: ensure_predefined_schemas called again right after a call that
\* returned Ok issues no createSchema, createIndex, dropSchema or dropIndex
\* call and leaves the schemas and the indexes as the first call left them.
C9_EnsureIdempotent ==
    LET t == task[1]
    IN  (t.op \in InitOps /\ ~t.force /\ t.stage = "again") =>
            /\ \A j \in 1..Len(t.calls) : t.calls[j].call \notin Changing
            /\ schemas = t.preSchemas
            /\ indexes = t.preIndexes

\* C9 witness: the second call returned Ok, the first having lost an index
C9_Witness ==
    LET t == task[1]
    IN  /\ t.op \in InitOps /\ ~t.force /\ t.stage = "again" /\ Completed(t)
        /\ PredefinedNames \subseteq SchemaSet(schemas)
        /\ \E c \in PredefinedNames : IndexesCreated({}, c, NoFault) \ indexes # {}

NlRecallOps == {"cli_recall_query", "prompt_recall"}
\* how many of the calls are the broadening query(category, None, limit),
\* the plan's own call not counted
FallbackCount(t) ==
    Cardinality({j \in 2..Len(t.calls) : t.calls[j] = FallbackCall(t.plan)})

\* C11: one execution of the query executor issues the plan's own call and
\* then the broadening query(category, None, limit) at most once and nothing
\* else; it never broadens when the plan is an unbounded PartitionScan, and
\* broadens only after the plan's call answered with no items.
C11_FallbackAtMostOnce ==
    \A p \in Procs :
        LET t == task[p]
        IN  (t.op \in NlRecallOps /\ Idle(p) /\ t.status \in {"ok", "err"}) =>
                /\ Len(t.calls) \in {1, 2}
                /\ t.calls[1] = ResolvedCall(t.plan)
                /\ FallbackCount(t) = Len(t.calls) - 1
                /\ FallbackCount(t) <= 1
                /\ Unbounded(t.plan) => FallbackCount(t) = 0
                /\ FallbackCount(t) = 1 =>
                      LET first == execute_resolved_query(t.pre, t.preIndexes, t.plan, t.n)
                      IN  first.ok /\ first.items = <<>>
\* a narrower plan that found nothing was broadened once and found items
C11_Witness ==
    \E p \in Procs :
        LET t == task[p]
        IN  /\ t.op \in NlRecallOps /\ Idle(p) /\ t.status = "ok"
            /\ ~Unbounded(t.plan) /\ Len(t.calls) = 2 /\ t.ret # <<>>

(***************************************************************************)
(* is_expired and its two users, the read filter and prune (ttl.rs).       *)
(***************************************************************************)
\* items stored with every kind of expires_at: absent, not a string, not a
\* timestamp, past, and future
ExpiryStoreRequests ==
    {[category |-> "notes", key |-> "a1", attributes |-> [content |-> "x"], ttl |-> NoTtl],
     [category |-> "notes", key |-> "a1",
      attributes |-> [content |-> "x", expires_at |-> NotAString], ttl |-> NoTtl],
     [category |-> "notes", key |-> "b1",
      attributes |-> [content |-> "y", expires_at |-> NotATimestamp], ttl |-> NoTtl],
     [category |-> "notes", key |-> "b1",
      attributes |-> [content |-> "x", expires_at |-> DaySecs, created_at |-> 0], ttl |-> NoTtl],
     [category |-> "notes", key |-> "a1", attributes |-> [topic |-> "t"], ttl |-> <<"1", "h">>],
     [category |-> "scratchpad", key |-> "a1",
      attributes |-> [content |-> "x", expires_at |-> NotAString], ttl |-> NoTtl]}
ExpiryNext ==
    \/ Tick
    \/ McpStore(1, ExpiryStoreRequests)
    \/ McpGet(1) \/ McpQuery(1) \/ McpList(1)
    \/ CliRecallGet(1) \/ CliScan(1)
    \/ Prune(1) \/ PruneList(1) \/ PruneScan(1) \/ PruneItem(1)
ExpirySpec == Init /\ [][ExpiryNext]_vars

\* expires_at is a parseable RFC 3339 timestamp
HasTimestamp(d) == Has(d, "expires_at") /\ d["expires_at"] >= 0
\* the items a caller is looking at: stored, read from the backend, or pruned
SeenItems ==
    store \cup UNION {{task[p].items[j] : j \in 1..Len(task[p].items)} \cup task[p].deleted
                        : p \in Procs}

\* C12: is_expired(item) is true exactly when expires_at is a parseable
\* timestamp strictly before now; with expires_at absent, not a string or
\* unparseable it is false, so no read drops such an item from what the
\* backend gave it and no prune deletes it.
C12_IsExpiredIffParseablePast ==
    /\ \A d \in SeenItems, t \in {now, now + HourSecs, now - DaySecs} :
          is_expired(d, t) <=> (HasTimestamp(d) /\ d["expires_at"] < t)
    /\ \A p \in Procs :
          LET t == task[p]
          IN  /\ (t.op \in ReadOps /\ Idle(p)) =>
                    \A j \in 1..Len(t.items) :
                        ~HasTimestamp(t.items[j]) => t.items[j] \in Returned(t)
              /\ t.op \in PruneOps => \A d \in t.deleted : HasTimestamp(d)
\* a read that dropped an expired item returned one whose expires_at is not
\* a string, or a prune that deleted an expired item
\* finished with an item of the scanned category left whose expires_at is
\* not a timestamp
C12_Witness ==
    \E p \in Procs :
        LET t == task[p]
        IN  /\ Idle(p) /\ t.status = "ok"
            /\ \/ /\ t.op \in ReadOps /\ ~t.incl /\ Len(t.ret) < Len(t.items)
                  /\ \E d \in Returned(t) :
                        Has(d, "expires_at") /\ d["expires_at"] = NotAString
               \/ /\ t.op \in PruneOps /\ t.deleted # {}
                  /\ \E d \in store : Has(d, "expires_at") /\ ~HasTimestamp(d)

(***************************************************************************)
(* Stores with a ttl string (mcp.rs memory_store, cli.rs Command::Remember)*)
(***************************************************************************)
TtlStrings ==
    {<<>>, <<" ">>, <<"0", "h">>, <<"-", "1", "d">>, <<"5", "x">>, <<"d">>,
     <<"1", ".", "5", "h">>, <<"5", "U+00E9">>, <<"1", "h">>, <<" ", "2", "w">>}
TtlStoreRequests ==
    {[category |-> c, key |-> "a1", attributes |-> [content |-> "x"], ttl |-> s] :
        c \in {"notes"}, s \in TtlStrings}
TtlRememberRequests ==
    {[category |-> c, key |-> None, ttl |-> s] : c \in {None, "notes", "sessions"}, s \in TtlStrings}
TtlNext ==
    \/ McpStore(1, TtlStoreRequests)
    \/ CliRemember(1, TtlRememberRequests) \/ RememberBody(1)
    \/ AutoInitStep(1) \/ EnsureStep(1)
TtlSpec == Init /\ [][TtlNext]_vars

\* the ttl strings the specification calls invalid, blanks around them
\* aside: empty, unknown unit, N not an integer, N not positive
InvalidTtl(str) ==
    LET s == Trim(str)
    IN  \/ s = <<>>
        \/ s[Len(s)] \notin {"h", "d", "w"}
        \/ ~ParseI64(SubSeq(s, 1, Len(s) - 1)).ok
        \/ ParseI64(SubSeq(s, 1, Len(s) - 1)).val <= 0
TtlStoreOps == {"mcp_store", "cli_remember"}
\* the errors of an earlier step of the handler: a backend or LLM call that
\* failed, or remember's category check
EarlierFailure(t) ==
    t.op = "cli_remember" /\ t.status \in {"err", "unknown_category"}

\* C13: a store whose ttl string is invalid fails with InvalidParams given to
\* the caller (unless an earlier step of the handler already failed), and it
\* fails before anything is written: no put_item is issued and the items are
\* as they were.
C13_InvalidTtlFailsBeforeWrite ==
    \A p \in Procs :
        LET t == task[p]
        IN  (t.op \in TtlStoreOps /\ t.ttl # NoTtl /\ InvalidTtl(t.ttl)) =>
                /\ t.wrote = NoDoc
                /\ store = t.pre
                /\ Idle(p) => (t.status = "invalid_params" \/ EarlierFailure(t))

(***************************************************************************)
(* Promote of an item that is not there.                                   *)
(***************************************************************************)
AbsentAtStart(t) == \A d \in t.pre : ~SameKey(d, t.cat, t.key)

\* C14: a promote of a (category, key) that holds no item tells the caller
\* so (not_found, or the error of a failed get_item) and issues no put_item
\* and no delete_item: the items stay as they were.
C14_PromoteOfAbsentChangesNothing ==
    \A p \in Procs :
        LET t == task[p]
        IN  (t.op \in PromoteOps /\ AbsentAtStart(t)) =>
                /\ t.wrote = NoDoc
                /\ t.writes = <<>>
                /\ store = t.pre
                /\ t.pc \in {"promote_get", "idle"}
                /\ Idle(p) => t.status \in {"not_found", "err", "cancelled"}
                /\ (Idle(p) /\ t.status = "err") => faults > 0
\* not_found was answered while the category held another item, on a
\* promote that asked for another category
C14_Witness ==
    \E p \in Procs :
        LET t == task[p]
        IN  /\ t.op \in PromoteOps /\ Idle(p) /\ t.status = "not_found"
            /\ Recategorizes(t)
            /\ \E d \in store : d["category"] = t.cat

(***************************************************************************)
(* The category of a store.                                                *)
(***************************************************************************)
\* the category the caller gave (None when the LLM is to choose)
SuppliedCategory(t) ==
    IF t.op = "mcp_store" THEN t.cat
    ELSE IF t.op = "cli_remember" THEN t.optcat
    ELSE None

\* C15: a store with a caller-supplied category that has no schema fails and
\* writes no item, on the CLI's remember and on the MCP store tool.
C15_SuppliedCategoryNeedsSchema ==
    \A p \in Procs :
        LET t == task[p]
        IN  (/\ t.op \in {"mcp_store", "cli_remember"} /\ Idle(p)
             /\ SuppliedCategory(t) # None
             /\ ~has_schema(schemas, SuppliedCategory(t))) =>
                /\ t.status # "ok"
                /\ t.wrote = NoDoc
                /\ store = t.pre

\* the stores that leave the category to the LLM
LlmChoiceStore(t) ==
    \/ t.op = "cli_remember" /\ t.optcat = None
    \/ t.op = "prompt_remember"
\* the LLM's answer names a category of the set it was offered
NamesOffered(doc, offered) ==
    /\ Has(doc, "category")
    /\ doc["category"] # NotAStringCategory
    /\ doc["category"] \in offered

\* C16: without a caller-supplied category the item is written under a
\* category of the existing schemas offered to the LLM, and under notes when
\* the LLM's answer names none of them (field missing, not a string, or a
\* name outside the set).
C16_ChosenCategoryIsOffered ==
    \A p \in Procs :
        LET t == task[p]
            offered == SchemaSet(schemas)
        IN  (LlmChoiceStore(t) /\ Idle(p) /\ t.status = "ok") =>
                /\ t.wrote["category"] \in offered
                /\ ~NamesOffered(t.doc, offered) => t.wrote["category"] = "notes"

Msg ==
    [
     \* "schema not found: aa"
     schema_not_found |-> <<"s", "c", "h", "e", "m", "a", " ", "n", "o", "t",
        " ", "f", "o", "u", "n", "d", ":", " ", "a", "a">>,
     \* "SchemaNotFound(aa)"
     variant |-> <<"S", "c", "h", "e", "m", "a", "N", "o", "t", "F", "o",
        "u", "n", "d", "(", "a", "a", ")">>,
     \* "aa does not exist"
     does_not_exist |-> <<"a", "a", " ", "d", "o", "e", "s", " ", "n", "o",
        "t", " ", "e", "x", "i", "s", "t">>,
     \* "socket not found"
     socket_not_found |-> <<"s", "o", "c", "k", "e", "t", " ", "n", "o", "t",
        " ", "f", "o", "u", "n", "d">>,
     \* "Not Found"
     capitals |-> <<"N", "o", "t", " ", "F", "o", "u", "n", "d">>,
     \* "notfound"
     one_word |-> <<"n", "o", "t", "f", "o", "u", "n", "d">>,
     \* "connection refused"
     refused |-> <<"c", "o", "n", "n", "e", "c", "t", "i", "o", "n", " ",
        "r", "e", "f", "u", "s", "e", "d">>,
     empty |-> <<>>]

\* str::contains
Contains(msg, needle) ==
    \E i \in 1..(Len(msg) - Len(needle) + 1) :
        SubSeq(msg, i, i + Len(needle) - 1) = needle
\* the four patterns of the match guard
NotFoundPatterns ==
    {<<"n", "o", "t", " ", "f", "o", "u", "n", "d">>,
     <<"N", "o", "t", "F", "o", "u", "n", "d">>,
     <<"d", "o", "e", "s", " ", "n", "o", "t", " ", "e", "x", "i", "s", "t">>,
     <<"S", "c", "h", "e", "m", "a", "N", "o", "t", "F", "o", "u", "n", "d">>}
\* the guard, were it to take every schema error for a missing schema
IsSchemaNotFoundAny(e) == e.kind = "Schema"
\* Err(MemoryError::Schema(ref msg)) if msg.contains(..) || ..
IsSchemaNotFound(e) ==
    e.kind = "Schema" /\ \E n \in NotFoundPatterns : Contains(e.msg, n)

\* describe_schema's answers: Ok(info), or an error of some kind and message
DescribeOk(c) == [ok |-> TRUE, prefix |-> c, kind |-> "none", msg |-> Msg.empty]
DescribeErr(k, m) == [ok |-> FALSE, prefix |-> None, kind |-> k, msg |-> m]
ErrorKinds == {"Schema", "Internal", "Server"}
Messages == {Msg[k] : k \in DOMAIN Msg}
describe_schema(sch, c) ==
    (IF has_schema(sch, c) THEN {DescribeOk(c)} ELSE {})
        \cup {DescribeErr(k, m) : k \in ErrorKinds, m \in Messages}

\* has_schema: Ok(true), Ok(false) or Err(e)
has_schema_result(resp) ==
    IF resp.ok THEN [ok |-> TRUE, val |-> "true", err |-> resp]
    ELSE IF IsSchemaNotFound(resp) THEN [ok |-> TRUE, val |-> "false", err |-> resp]
    ELSE [ok |-> FALSE, val |-> None, err |-> resp]
\* get_schema: Ok(Some(info)), Ok(None) or Err(e)
get_schema_result(resp) ==
    IF resp.ok THEN [ok |-> TRUE, val |-> resp.prefix, err |-> resp]
    ELSE IF IsSchemaNotFound(resp) THEN [ok |-> TRUE, val |-> "None", err |-> resp]
    ELSE [ok |-> FALSE, val |-> None, err |-> resp]

DescribeCats == {"notes", "sessions"}
HasSchemaCall(p) ==
    /\ CanStart(p)
    /\ \E c \in DescribeCats : \E resp \in describe_schema(schemas, c) :
        LET r == has_schema_result(resp)
        IN  SetTask(p, Done([NewTask("has_schema", c, None) EXCEPT
                                !.answer = resp, !.result = r],
                            IF r.ok THEN "ok" ELSE "err"))
    /\ ops' = ops + 1
    /\ UNCHANGED <<store, last, schemas, indexes, now, ticks, faults, tables, server, locks>>
GetSchemaCall(p) ==
    /\ CanStart(p)
    /\ \E c \in DescribeCats : \E resp \in describe_schema(schemas, c) :
        LET r == get_schema_result(resp)
        IN  SetTask(p, Done([NewTask("get_schema", c, None) EXCEPT
                                !.answer = resp, !.result = r],
                            IF r.ok THEN "ok" ELSE "err"))
    /\ ops' = ops + 1
    /\ UNCHANGED <<store, last, schemas, indexes, now, ticks, faults, tables, server, locks>>

DescribeNext == HasSchemaCall(1) \/ GetSchemaCall(1) \/ CliDefine(1)
DescribeSpec == Init /\ [][DescribeNext]_vars

\* the messages that hold one of the four patterns, read off the texts
HoldsPattern == {Msg.schema_not_found, Msg.variant, Msg.does_not_exist, Msg.socket_not_found}

\* C18: has_schema and get_schema answer Ok(false) and Ok(None) exactly when
\* describe_schema failed with a schema error whose message holds one of
\* "not found", "NotFound", "does not exist", "SchemaNotFound"; Ok(true) and
\* Ok(Some(schema)) when it succeeded; and any other error is given back to
\* the caller as that error.
C18_NotFoundMeansAbsent ==
    \A p \in Procs :
        LET t == task[p]
            a == t.answer
            r == t.result
            missing == ~a.ok /\ a.kind = "Schema" /\ a.msg \in HoldsPattern
        IN  (t.op \in {"has_schema", "get_schema"} /\ Idle(p)) =>
                /\ (r.ok /\ r.val = IF t.op = "has_schema" THEN "false" ELSE "None")
                      <=> missing
                /\ a.ok => (r.ok /\ r.val = IF t.op = "has_schema" THEN "true" ELSE t.cat)
                /\ (~a.ok /\ ~missing) => (~r.ok /\ r.err = a /\ t.status = "err")
\* a schema error that names no pattern, and an error of another kind whose
\* message does, were given back as errors
C18_Witness ==
    \E p \in Procs :
        LET t == task[p]
        IN  /\ t.op \in {"has_schema", "get_schema"} /\ Idle(p) /\ t.status = "err"
            /\ \/ t.answer.kind = "Schema" /\ t.answer.msg = Msg.capitals
               \/ t.answer.kind = "Internal" /\ t.answer.msg = Msg.schema_not_found

(***************************************************************************)
(* Namespaces (mcp.rs resolve_backend, lib.rs resolve_table_name).  Two    *)
(* callers of one MCP server; a tool call resolves its backend, then calls *)
(* it.  Every namespace's table exists.                                    *)
(***************************************************************************)
\* resolve_backend, were the table name set on the server's own backend
resolve_backend_shared(srv, namespace) ==
    LET ns == IF namespace # None THEN namespace ELSE srv.default_namespace
        name == IF ns # None THEN resolve_table_name(ns) ELSE srv.table_name
    IN  [backend |-> [table_name |-> name], server |-> [srv EXCEPT !.table_name = name]]
\* resolve_backend: a clone of the server's backend, on the table of the
\* call's namespace, else of the default namespace, else its own
resolve_backend(srv, namespace) ==
    LET ns == IF namespace # None THEN namespace ELSE srv.default_namespace
        name == IF ns # None THEN resolve_table_name(ns) ELSE srv.table_name
    IN  [backend |-> [table_name |-> name], server |-> srv]

\* the items of a table
TableOf(name) == IF name = TABLE_NAME THEN store ELSE tables[name]

\* run_mcp_server(backend, namespace) with a namespace
ServerStart ==
    /\ ops = 0
    /\ server.default_namespace = None
    /\ \E ns \in Namespaces : \E name \in {TABLE_NAME, resolve_table_name(ns)} :
        server' = [table_name |-> name, default_namespace |-> ns]
    /\ UNCHANGED <<store, last, schemas, indexes, now, task, ops, ticks, faults, tables, locks>>

NamespaceTools == {"ns_store", "ns_delete", "ns_get"}
\* a tool call with its namespace parameter: resolve_backend
NsStart(p) ==
    /\ CanStart(p)
    /\ \E tool \in NamespaceTools, ns \in Namespaces \cup {None}, k \in ReadKeys :
        LET r == resolve_backend(server, ns)
        IN  /\ SetTask(p, [NewTask(tool, "notes", k) EXCEPT
                              !.ns = ns, !.backend = r.backend, !.pc = "ns_call"])
            /\ server' = r.server
    /\ ops' = ops + 1
    /\ UNCHANGED <<store, last, schemas, indexes, now, ticks, faults, tables, locks>>
\* the tool's backend call, on the table of the backend it resolved
NsDo(p) ==
    /\ task[p].pc = "ns_call"
    /\ LET t == task[p]
           name == t.backend.table_name
           doc == [category |-> t.cat, key |-> t.key, content |-> "x", created_at |-> now]
           item == get_item(TableOf(name), t.cat, t.key)
       IN  CASE t.op = "ns_store" ->
                  /\ IF name = TABLE_NAME THEN Put(doc) /\ UNCHANGED tables
                     ELSE /\ tables' = [tables EXCEPT ![name] = put_item(tables[name], doc)]
                          /\ NoWrite
                  /\ SetTask(p, Done([t EXCEPT !.wrote = doc], "ok"))
             [] t.op = "ns_delete" ->
                  /\ IF name = TABLE_NAME THEN Del(t.cat, t.key) /\ UNCHANGED tables
                     ELSE /\ tables' = [tables EXCEPT
                                          ![name] = delete_item(tables[name], t.cat, t.key)]
                          /\ NoWrite
                  /\ SetTask(p, Done(t, "ok"))
             [] OTHER ->
                  /\ SetTask(p, Done([t EXCEPT !.ret = IF IsDoc(item) THEN <<item>> ELSE <<>>],
                                     IF IsDoc(item) THEN "ok" ELSE "not_found"))
                  /\ NoWrite /\ UNCHANGED tables
    /\ UNCHANGED <<schemas, indexes, now, ops, ticks, faults, server, locks>>

NamespaceNext ==
    \/ ServerStart
    \/ NsStart(1) \/ NsStart(2)
    \/ NsDo(1) \/ NsDo(2)
NamespaceSpec == Init /\ [][NamespaceNext]_vars

\* the table the specification names for a call
ExpectedTable(ns, default) ==
    IF ns # None THEN "memories_" \o ns
    ELSE IF default # None THEN "memories_" \o default
    ELSE "memories"
AllTables == {"memories", "memories_a", "memories_b"}

\* C19: a call uses memories when no namespace applies and memories_{ns} for
\* its own namespace, else the server's default namespace; no call changes
\* the server's backend or default namespace, so the table of any other
\* call, running or later, is not affected; and an item write or delete
\* changes the items of the caller's table only.
C19_NamespacePerCall ==
    /\ [](\A p \in Procs :
            task[p].op \in NamespaceTools =>
                task[p].backend.table_name
                    = ExpectedTable(task[p].ns, server.default_namespace))
    /\ [][(\E p \in Procs : task'[p] # task[p]) => server' = server]_vars
    /\ [][\A name \in AllTables :
            TableOf(name)' # TableOf(name) =>
                \E p \in Procs :
                    /\ task[p].pc = "ns_call" /\ task'[p].pc = "idle"
                    /\ task[p].op \in {"ns_store", "ns_delete"}
                    /\ name = ExpectedTable(task[p].ns, server.default_namespace)]_vars
\* under default namespace a, one caller stored into b by its own namespace
\* and the other, giving none, stored into a; memories holds nothing
C19_Witness ==
    /\ server.default_namespace = "a"
    /\ task[1].op = "ns_store" /\ task[1].ns = "b" /\ Idle(1)
    /\ task[2].op = "ns_store" /\ task[2].ns = None /\ Idle(2)
    /\ tables["memories_b"] # {} /\ tables["memories_a"] # {} /\ store = {}

(***************************************************************************)
(* strip_markdown_fences (schema.rs).  A text is its sequence of           *)
(* characters; the backtick and the line feed are written by their code    *)
(* points.                                                                 *)
(***************************************************************************)
Backtick == "U+0060"
Newline == "U+000A"
FenceChars == {Backtick, Newline, "a"}
Fence == <<Backtick, Backtick, Backtick>>

\* str::trim: white space off both ends
IsSpace(c) == c \in {" ", Newline}
RECURSIVE TrimStartWs(_)
TrimStartWs(s) == IF s # <<>> /\ IsSpace(s[1]) THEN TrimStartWs(Tail(s)) ELSE s
RECURSIVE TrimEndWs(_)
TrimEndWs(s) ==
    IF s # <<>> /\ IsSpace(s[Len(s)]) THEN TrimEndWs(SubSeq(s, 1, Len(s) - 1)) ELSE s
TrimWs(s) == TrimEndWs(TrimStartWs(s))

\* str::starts_with of the fence
StartsWithFence(s) == Len(s) >= 3 /\ SubSeq(s, 1, 3) = Fence
\* str::find of the line feed: the position of the first line feed, 0 for None
FindNewline(s) ==
    IF \E i \in 1..Len(s) : s[i] = Newline
    THEN CHOOSE i \in 1..Len(s) : s[i] = Newline /\ \A j \in 1..(i - 1) : s[j] # Newline
    ELSE 0
\* str::rfind of the fence: the position where the last fence starts, 0 for None
RFindFence(s) ==
    LET at == {i \in 1..(Len(s) - 2) : SubSeq(s, i, i + 2) = Fence}
    IN  IF at = {} THEN 0 ELSE CHOOSE i \in at : \A j \in at : j <= i

\* strip_markdown_fences
strip_markdown_fences(text) ==
    LET trimmed == TrimWs(text)
        nl == FindNewline(trimmed)
        after_first_fence == IF nl = 0 THEN trimmed
                             ELSE SubSeq(trimmed, nl + 1, Len(trimmed))
        end == RFindFence(after_first_fence)
    IN  IF StartsWithFence(trimmed) /\ end # 0
        THEN TrimWs(SubSeq(after_first_fence, 1, end - 1))
        ELSE trimmed

\* a caller starts on a text, extends it a character at a time, and strips it
StripBegin(p) ==
    /\ CanStart(p)
    /\ SetTask(p, [NewTask("strip_markdown_fences", None, None) EXCEPT !.pc = "text"])
    /\ ops' = ops + 1
    /\ UNCHANGED <<store, last, schemas, indexes, now, ticks, faults, tables, server, locks>>
StripType(p) ==
    /\ task[p].pc = "text"
    /\ Len(task[p].text) < MaxText
    /\ \E c \in FenceChars :
        SetTask(p, [task[p] EXCEPT !.text = Append(task[p].text, c)])
    /\ UNCHANGED <<store, last, schemas, indexes, now, ops, ticks, faults, tables, server, locks>>
StripApply(p) ==
    /\ task[p].pc = "text"
    /\ SetTask(p, Done([task[p] EXCEPT !.out = strip_markdown_fences(task[p].text)], "ok"))
    /\ UNCHANGED <<store, last, schemas, indexes, now, ops, ticks, faults, tables, server, locks>>

FenceNext == StripBegin(1) \/ StripType(1) \/ StripApply(1)
FenceSpec == Init /\ [][FenceNext]_vars

Stripped(p) == task[p].op = "strip_markdown_fences" /\ Idle(p)

\* C20: strip_markdown_fences gives a text with no leading fence back as it
\* is, and stripping what it returned changes nothing more.
C20_StripIdentityAndFixedPoint ==
    \A p \in Procs :
        Stripped(p) =>
            /\ ~StartsWithFence(task[p].text) => task[p].out = task[p].text
            /\ strip_markdown_fences(task[p].out) = task[p].out

(***************************************************************************)
(* The query executor's result (cli.rs execute_with_fallback).             *)
(***************************************************************************)
\* the plan's own result, from the backend as the recall found it
OwnResult(t) ==
    CASE t.plan.kind = "ExactLookup" ->
            LET hit == {d \in t.pre : SameKey(d, t.plan.category, t.plan.key)}
            IN  IF hit = {} THEN <<>> ELSE <<CHOOSE d \in hit : TRUE>>
      [] t.plan.kind = "PartitionScan" ->
            query(t.pre, t.plan.category, t.plan.key_prefix, t.n)
      [] OTHER ->
            query_index(t.pre, t.preIndexes, t.plan.index_name, t.plan.key_value, t.n).items
\* the whole category, up to the limit
BroadResult(t) == query(t.pre, t.plan.category, NoPrefix, t.n)

BackendCalls ==
    {"put_item", "get_item", "query", "delete_item", "list_schemas", "describe_schema"}

\* the awaits of a handler, in order (one scanned item expired for a prune)
LockPrograms ==
    {[tool |-> "memory_store", prog |-> <<"resolve_backend", "put_item">>],
     [tool |-> "memory_get", prog |-> <<"resolve_backend", "get_item">>],
     [tool |-> "memory_promote",
      prog |-> <<"resolve_backend", "get_item", "put_item", "delete_item">>],
     [tool |-> "memory_prune",
      prog |-> <<"resolve_backend", "list_schemas", "query", "delete_item">>],
     [tool |-> "remember",
      prog |-> <<"list_schemas", "list_schemas", "llm", "put_item">>],
     [tool |-> "promote",
      prog |-> <<"get_item", "list_schemas", "describe_schema", "llm",
                 "put_item", "delete_item">>]}
LockTools == {lp.tool : lp \in LockPrograms}

\* the await a tool call is at is over: on to the next, or the call returns
NextAwait(t) ==
    IF Len(t.prog) <= 1 THEN Done([t EXCEPT !.prog = <<>>], "ok")
    ELSE [t EXCEPT !.prog = Tail(t.prog), !.pc = "await"]

\* the statement of resolve_backend is over: its guard is dropped
\* resolve_backend, were the guard on the server's backend kept by the call
AfterCloneKeepsGuard(l, p) == l
AfterClone(l, p) == [l EXCEPT !.backend = 0]
\* a facade method's statement, were its guard kept until the handler returns
AfterCallKeepsGuard(l, p) == [l EXCEPT !.in_flight = l.in_flight \ {p}]
\* a facade method's statement is over: the answer is in, the guard dropped
AfterCall(l, p) == [l EXCEPT !.client = 0, !.in_flight = l.in_flight \ {p}]

\* a tool call arrives
ToolStart(p) ==
    /\ CanStart(p)
    /\ \E lp \in LockPrograms :
        SetTask(p, [NewTask(lp.tool, None, None) EXCEPT !.prog = lp.prog, !.pc = "await"])
    /\ ops' = ops + 1
    /\ UNCHANGED <<store, last, schemas, indexes, now, ticks, faults, tables, server, locks>>
\* the handler reaches its next await
ToolAwait(p) ==
    /\ task[p].pc = "await"
    /\ SetTask(p, [task[p] EXCEPT !.pc =
                        CASE Head(task[p].prog) = "resolve_backend" -> "backend_lock"
                          [] Head(task[p].prog) = "llm" -> "llm"
                          [] OTHER -> "client_lock"])
    /\ UNCHANGED <<store, last, schemas, indexes, now, ops, ticks, faults, tables, server, locks>>
\* self.backend.lock().await
BackendLock(p) ==
    /\ task[p].pc = "backend_lock"
    /\ locks.backend = 0
    /\ locks' = [locks EXCEPT !.backend = p]
    /\ SetTask(p, [task[p] EXCEPT !.pc = "clone"])
    /\ UNCHANGED <<store, last, schemas, indexes, now, ops, ticks, faults, tables, server>>
\* .clone(), and the end of the statement
BackendClone(p) ==
    /\ task[p].pc = "clone"
    /\ locks' = AfterClone(locks, p)
    /\ SetTask(p, NextAwait(task[p]))
    /\ UNCHANGED <<store, last, schemas, indexes, now, ops, ticks, faults, tables, server>>
\* client.lock().await
ClientLock(p) ==
    /\ task[p].pc = "client_lock"
    /\ locks.client = 0
    /\ locks' = [locks EXCEPT !.client = p]
    /\ SetTask(p, [task[p] EXCEPT !.pc = "call"])
    /\ UNCHANGED <<store, last, schemas, indexes, now, ops, ticks, faults, tables, server>>
\* the client call: the request goes out
ClientCall(p) ==
    /\ task[p].pc = "call"
    /\ locks' = [locks EXCEPT !.in_flight = locks.in_flight \cup {p}]
    /\ SetTask(p, [task[p] EXCEPT !.pc = "in_flight"])
    /\ UNCHANGED <<store, last, schemas, indexes, now, ops, ticks, faults, tables, server>>
\* the answer comes in, Ok or Err (an Err returns from the handler with ?)
ClientReturn(p) ==
    /\ task[p].pc = "in_flight"
    /\ \E f \in FaultChoices({<<"call", "">>}) :
        /\ Charge(f)
        /\ locks' = IF f # NoFault THEN [locks EXCEPT !.client = 0,
                                                      !.in_flight = locks.in_flight \ {p}]
                    ELSE AfterCall(locks, p)
        /\ SetTask(p, IF f # NoFault THEN Done(task[p], "err") ELSE NextAwait(task[p]))
    /\ UNCHANGED <<store, last, schemas, indexes, now, ops, ticks, tables, server>>
\* the LLM answers
LlmReturn(p) ==
    /\ task[p].pc = "llm"
    /\ SetTask(p, NextAwait(task[p]))
    /\ UNCHANGED <<store, last, schemas, indexes, now, ops, ticks, faults, tables, server, locks>>

LockStep(p) ==
    \/ ToolAwait(p) \/ BackendLock(p) \/ BackendClone(p)
    \/ ClientLock(p) \/ ClientCall(p) \/ ClientReturn(p) \/ LlmReturn(p)
LockNext ==
    \/ ToolStart(1) \/ ToolStart(2)
    \/ LockStep(1) \/ LockStep(2)
LockSpec == Init /\ [][LockNext]_vars

\* fair scheduling of the tasks; tokio's mutex hands the lock over in the
\* order of the waiters, so a waiter is not passed over for ever
LockFairness ==
    \A p \in Procs :
        /\ WF_vars(ToolAwait(p)) /\ WF_vars(BackendClone(p)) /\ WF_vars(ClientCall(p))
        /\ WF_vars(ClientReturn(p)) /\ WF_vars(LlmReturn(p))
        /\ SF_vars(BackendLock(p)) /\ SF_vars(ClientLock(p))
LockFairSpec == LockSpec /\ LockFairness

InLockTool(p) == task[p].op \in LockTools
\* the mutexes p holds
HoldsClient(p) == locks.client = p
HoldsBackend(p) == locks.backend = p

\* C22: at most one request is in flight on the client, and the client
\* mutex is held only across one client call: not during an LLM call, and
\* not between two backend calls of a handler.
C22_OneInFlightGuardPerCall ==
    /\ Cardinality(locks.in_flight) <= 1
    /\ \A p \in Procs :
        /\ p \in locks.in_flight => HoldsClient(p) /\ task[p].pc = "in_flight"
        /\ HoldsClient(p) =>
              /\ task[p].pc \in {"call", "in_flight"}
              /\ Head(task[p].prog) \in BackendCalls
        /\ task[p].pc \in {"llm", "await", "idle"} => ~HoldsClient(p)
\* one task has a request in flight while the other, between two backend
\* calls of a promote, waits for the client
C22_Witness ==
    \E p, q \in Procs :
        /\ p # q
        /\ task[p].pc = "in_flight" /\ p \in locks.in_flight
        /\ task[q].op \in {"memory_promote", "promote"}
        /\ task[q].pc = "client_lock" /\ Head(task[q].prog) = "put_item"

\* a task is waiting for a mutex
WaitsForClient(p) == task[p].pc = "client_lock"
Running(p) == InLockTool(p) /\ ~Idle(p)

\* C30: no task waits for the client mutex while it holds the client mutex
\* or the server's backend mutex; while a tool call is running some task can
\* take a step; and with fair scheduling and a backend that answers, every
\* tool call that was issued completes.
C30_NoWaitWhileHoldingAndCompletion ==
    /\ [](\A p \in Procs : WaitsForClient(p) => ~HoldsClient(p) /\ ~HoldsBackend(p))
    /\ []((\E p \in Procs : Running(p)) => ENABLED (LockStep(1) \/ LockStep(2)))
    /\ \A p \in Procs : Running(p) ~> Idle(p)
\* an MCP tool call, past resolve_backend, waits for the client mutex that
\* the other task holds for its request
C30_Witness ==
    \E p, q \in Procs :
        /\ p # q
        /\ HoldsClient(p) /\ task[p].pc = "in_flight"
        /\ WaitsForClient(q) /\ task[q].op = "memory_prune"
        /\ Head(task[q].prog) = "delete_item"

(***************************************************************************)
(* Concurrent first use: auto_init and ensure_predefined_schemas, one step *)
(* per backend call, for two callers on one table.  The engine's answer to *)
(* a create_schema for a prefix that has a schema is not fixed by this     *)
(* code, which handles no such answer: it is either an error or a success  *)
(* that leaves the prefix with the schema given.                           *)
(***************************************************************************)
\* the engine's create_schema
create_schema(sch, c, mode, accepts) ==
    IF sch[c] # "none" /\ ~accepts THEN [ok |-> FALSE, schemas |-> sch]
    ELSE [ok |-> TRUE, schemas |-> [sch EXCEPT ![c] = mode]]
\* the engine's create_index: a new index, or an error and no change
create_index(idx, c, a) == idx \cup {IndexInfo(c, a)}

\* what one bootstrap of an empty table leaves
BootstrapSchemas == [c \in AllCats |-> IF c \in PredefinedNames THEN "lenient" ELSE "none"]
BootstrapIndexes == UNION {IndexesCreated({}, c, NoFault) : c \in PredefinedNames}

\* the bootstrap is over with catalog entry i
BootAdvance(t) ==
    IF t.i = Len(PREDEFINED_SCHEMAS) THEN [t EXCEPT !.pc = "boot_store"]
    ELSE [t EXCEPT !.i = t.i + 1, !.n = 1, !.pc = "boot_describe"]

\* remember: auto_init first
BootStart(p) ==
    /\ CanStart(p)
    /\ SetTask(p, [NewTask("remember", "notes", IF p = 1 THEN "a1" ELSE "b1")
                        EXCEPT !.pc = "boot_list"])
    /\ ops' = ops + 1
    /\ UNCHANGED <<store, last, schemas, indexes, now, ticks, faults, tables, server, locks>>
\* auto_init: list_schemas, and the bootstrap when there is none
BootList(p) ==
    /\ task[p].pc = "boot_list"
    /\ SetTask(p, IF list_schemas(schemas) = <<>>
                  THEN [task[p] EXCEPT !.stage = "zero", !.i = 1, !.n = 1,
                                       !.pc = "boot_describe"]
                  ELSE [task[p] EXCEPT !.stage = "some", !.pc = "boot_store"])
    /\ UNCHANGED <<store, last, schemas, indexes, now, ops, ticks, faults, tables, server, locks>>
\* has_schema(predefined.name)
BootDescribe(p) ==
    /\ task[p].pc = "boot_describe"
    /\ LET t == task[p]
           c == PREDEFINED_SCHEMAS[t.i]
           t2 == [t EXCEPT !.calls = Append(t.calls, Call("describeSchema", c, ""))]
       IN  SetTask(p, IF has_schema(schemas, c) THEN BootAdvance(t2)
                      ELSE [t2 EXCEPT !.pc = "boot_create"])
    /\ UNCHANGED <<store, last, schemas, indexes, now, ops, ticks, faults, tables, server, locks>>
\* create_schema(category, .., validate = false)
BootCreate(p) ==
    /\ task[p].pc = "boot_create"
    /\ \E accepts \in BOOLEAN :
        LET t == task[p]
            c == PREDEFINED_SCHEMAS[t.i]
            r == create_schema(schemas, c, "lenient", accepts)
            t2 == [t EXCEPT !.calls = Append(t.calls, Call("createSchema", c, "lenient"))]
        IN  /\ (schemas[c] = "none" => accepts)
            /\ schemas' = r.schemas
            /\ SetTask(p, IF ~r.ok THEN Done(t2, "err")
                          ELSE IF IndexTargets(c) = <<>> THEN BootAdvance(t2)
                          ELSE [t2 EXCEPT !.n = 1, !.pc = "boot_index"])
    /\ UNCHANGED <<store, last, indexes, now, ops, ticks, faults, tables, server, locks>>
\* create_index for the next suggested index; an error is warned about
BootIndex(p) ==
    /\ task[p].pc = "boot_index"
    /\ LET t == task[p]
           c == PREDEFINED_SCHEMAS[t.i]
           a == IndexTargets(c)[t.n]
           t2 == [t EXCEPT !.calls = Append(t.calls, Call("createIndex", c, IndexName(c, a)))]
       IN  /\ indexes' = create_index(indexes, c, a)
           /\ SetTask(p, IF t.n = Len(IndexTargets(c)) THEN BootAdvance(t2)
                         ELSE [t2 EXCEPT !.n = t.n + 1])
    /\ UNCHANGED <<store, last, schemas, now, ops, ticks, faults, tables, server, locks>>
\* the store of the remember
BootStore(p) ==
    /\ task[p].pc = "boot_store"
    /\ LET t == task[p]
           doc == [category |-> t.cat, key |-> t.key, content |-> "x", created_at |-> now]
       IN  /\ Put(doc)
           /\ SetTask(p, Done([t EXCEPT !.wrote = doc], "ok"))
    /\ UNCHANGED <<schemas, indexes, now, ops, ticks, faults, tables, server, locks>>

BootStep(p) ==
    \/ BootStart(p) \/ BootList(p) \/ BootDescribe(p)
    \/ BootCreate(p) \/ BootIndex(p) \/ BootStore(p)
BootNext == BootStep(1) \/ BootStep(2)
BootSpec == Init /\ [][BootNext]_vars

\* a remember that found no schema at all and has returned
Bootstrapped(p) == task[p].op = "remember" /\ Idle(p) /\ task[p].stage = "zero"

\* C23: when two callers both find no schemas and both bootstrap, every
\* interleaving ends with the schemas and indexes of one bootstrap, and
\* neither caller's bootstrap or store fails.
C23_ConcurrentBootstrap ==
    /\ \A p \in Procs : Bootstrapped(p) => task[p].status = "ok"
    /\ (\A p \in Procs : Bootstrapped(p)) =>
            schemas = BootstrapSchemas /\ indexes = BootstrapIndexes

(***************************************************************************)
(* Best-effort index creation (schema.rs create_schema_with_indexes,       *)
(* backend.rs ensure_predefined_schemas).                                  *)
(***************************************************************************)
Elems(seq) == {seq[j] : j \in 1..Len(seq)}
\* the errors of a bootstrap, by the call that answered them
IndexErrors(t) == {e \in Elems(t.errs) : e.call = "createIndex"}
FatalErrors(t) == {e \in Elems(t.errs) : e.call \in {"describeSchema", "createSchema"}}
\* the bootstrap created the schema of c
CreatedSchema(t, c) ==
    /\ Call("createSchema", c, "lenient") \in Elems(t.calls)
    /\ Call("createSchema", c, "") \notin Elems(t.errs)

\* C24: a failing create_index leaves the schema just created in place, the
\* remaining indexes of the category and the remaining categories are still
\* processed, and the bootstrap returns Ok; it returns Err exactly when a
\* create_schema or a describe_schema call answered with an error.
C24_IndexCreationBestEffort ==
    \A p \in Procs :
        LET t == task[p]
        IN  (t.op \in InitOps /\ Idle(p) /\ t.status \in {"ok", "err"}) =>
                /\ t.status = "err" <=> FatalErrors(t) # {}
                /\ t.status = "ok" => \A c \in PredefinedNames : schemas[c] # "none"
                /\ \A e \in IndexErrors(t) : schemas[e.category] # "none"
                /\ \A c \in PredefinedNames :
                      CreatedSchema(t, c) =>
                          \A j \in 1..Len(IndexTargets(c)) :
                              LET a == IndexTargets(c)[j]
                              IN  /\ CreateIndexCalls(c)[j] \in Elems(t.calls)
                                  /\ \/ IndexInfo(c, a) \in indexes
                                     \/ Call("createIndex", c, IndexName(c, a))
                                            \in IndexErrors(t)
\* an init returned Ok although the first create_index of a category with
\* two indexes failed: its second index and the later categories are there
C24_Witness ==
    \E p \in Procs :
        LET t == task[p]
        IN  /\ t.op \in InitOps /\ Idle(p) /\ t.status = "ok"
            /\ Call("createIndex", "project", "project_area") \in IndexErrors(t)
            /\ IndexInfo("project", "area") \notin indexes
            /\ IndexInfo("project", "topic") \in indexes
            /\ schemas["project"] # "none" /\ schemas["scratchpad"] # "none"

(***************************************************************************)
(* Prune beside a second caller that stores and promotes (mcp.rs           *)
(* memory_prune, cli.rs Command::Prune): the scan, the is_expired test on  *)
(* the scanned copy and the delete_item by key are separate steps.         *)
(***************************************************************************)
PruneRaceStoreRequests ==
    {r \in McpStoreRequests : r.category = "notes" /\ r.key = "b1"}
PruneRaceNext ==
    \/ Tick
    \/ Prune(1) \/ PruneList(1) \/ PruneScan(1) \/ PruneItem(1)
    \/ McpStore(2, PruneRaceStoreRequests)
    \/ PromoteOf(2, {"mcp_promote"}, {"notes"}, {"b1"}, {None, "scratchpad"})
    \/ PromoteGet(2) \/ PromoteCall(2)
PruneRaceSpec == Init /\ [][PruneRaceNext]_vars

\* the step is a delete_item of p's prune
PruneDeletes(p) ==
    /\ task[p].op \in PruneOps /\ task[p].pc = "prune_item"
    /\ task'[p].n = task[p].n + 1

\* C25: whatever a concurrent store or promote does to the same category
\* and key, the item a prune's delete_item removes is expired when the
\* delete is applied.
C25_PruneRemovesOnlyExpired ==
    [][\A p \in Procs :
          PruneDeletes(p) =>
              \A d \in store : d \notin store' => is_expired(d, now)]_vars

(***************************************************************************)
(* A same-category promote beside a second caller that stores to the same  *)
(* category and key: get_item, the composing of the copy and put_item are  *)
(* separate steps.                                                         *)
(***************************************************************************)
PromoteRaceStoreRequests ==
    {r \in McpStoreRequests :
        r.category = "notes" /\ r.key = "a1" /\ ~Has(r.attributes, "category")}
PromoteRaceNext ==
    \/ Tick
    \/ PromoteOf(1, {"mcp_promote", "cli_promote"}, {"notes"}, {"a1"}, {None, "notes"})
    \/ PromoteGet(1) \/ PromoteCall(1)
    \/ McpStore(2, PromoteRaceStoreRequests)
PromoteRaceSpec == Init /\ [][PromoteRaceNext]_vars

\* p's same-category promote and q's store to the same item have returned Ok
BothCompleted(p, q) ==
    /\ task[p].op \in PromoteOps /\ Idle(p) /\ task[p].status = "ok"
    /\ ~Recategorizes(task[p])
    /\ task[q].op = "mcp_store" /\ Idle(q) /\ task[q].status = "ok"
    /\ task[q].cat = task[p].cat /\ task[q].key = task[p].key

\* C26: once a same-category promote and a concurrent store to the same
\* category and key have both completed, the item's attributes other than
\* created_at and expires_at are those the store wrote.
C26_PromoteKeepsConcurrentStore ==
    \A p, q \in Procs :
        BothCompleted(p, q) =>
            LET item == get_item(store, task[p].cat, task[p].key)
            IN  IsDoc(item) /\ NonSystem(item) = NonSystem(task[q].wrote)

(***************************************************************************)
(* Natural-language recall: the executor, then the expiry filter (cli.rs   *)
(* Command::Recall, the -p flow).                                          *)
(***************************************************************************)
\* the first limit items of a scan of the plan's category hold an item
\* that is not expired
CategoryHoldsLive(t) ==
    \E j \in 1..Len(BroadResult(t)) : ~is_expired(BroadResult(t)[j], t.t0)

\* C27: a recall by query, expiry filter applied, returns something
\* whenever the first limit items of the plan's category hold an unexpired
\* item, also when the plan itself matches expired items only.
C27_RecallFindsLiveItems ==
    \A p \in Procs :
        LET t == task[p]
        IN  (t.op \in NlRecallOps /\ Idle(p) /\ t.status = "ok" /\ ~t.incl) =>
                (CategoryHoldsLive(t) => t.ret # <<>>)

(***************************************************************************)
(* Promote of an expired item, and the reads after it (mcp.rs              *)
(* memory_promote, memory_get, memory_query, memory_list).                 *)
(***************************************************************************)
ReviveStoreRequests ==
    {r \in McpStoreRequests :
        r.category = "notes" /\ (r.ttl = <<"1", "h">> \/ Has(r.attributes, "expires_at"))}
ReviveNext ==
    \/ Tick
    \/ McpStore(1, ReviveStoreRequests)
    \/ PromoteOf(1, {"mcp_promote", "cli_promote"}, {"notes"}, ReadKeys, {None, "notes"})
    \/ PromoteGet(1) \/ PromoteCall(1)
    \/ McpGet(2) \/ McpQuery(2) \/ McpList(2)
ReviveSpec == Init /\ [][ReviveNext]_vars

\* p's same-category promote found, at (cat, key), an item that was expired
FoundExpired(p) ==
    LET t == task[p]
        old == get_item(t.pre, t.cat, t.key)
    IN  /\ t.op \in PromoteOps /\ ~Recategorizes(t) /\ Idle(p)
        /\ IsDoc(old) /\ is_expired(old, t.t0)
\* q's read got the item p's promote wrote from the backend
ReadPromoted(p, q) ==
    /\ task[q].op \in ReadOps /\ Idle(q)
    /\ task[p].wrote \in Elems(task[q].items)

\* C28: a same-category promote of an item that is expired and still in the
\* store succeeds; the item it writes has no expires_at, and a read that
\* comes upon that item returns it.
C28_PromoteRevivesExpired ==
    \A p \in Procs :
        FoundExpired(p) =>
            /\ task[p].status \in {"ok", "err"}
            /\ task[p].status = "ok" =>
                  /\ ~Has(task[p].wrote, "expires_at")
                  /\ NonSystem(task[p].wrote) = NonSystem(get_item(task[p].pre, task[p].cat, task[p].key))
                  /\ \A q \in Procs :
                        ReadPromoted(p, q) => task[p].wrote \in Returned(task[q])
\* an item whose expiry has passed was promoted, and memory_get then
\* returned it
C28_Witness ==
    \E p, q \in Procs :
        /\ FoundExpired(p) /\ task[p].status = "ok"
        /\ Has(task[p].item, "expires_at") /\ task[p].item["expires_at"] > 0
        /\ task[q].op = "mcp_get" /\ Idle(q) /\ task[q].ret = <<task[p].wrote>>

(***************************************************************************)
(* What a promote removes from the store.                                  *)
(***************************************************************************)
\* the items the store held when the promote began, its source apart
OtherItems(t) == {d \in t.pre : ~(d["category"] = t.cat /\ d["key"] = t.key)}
\* an item held at the promote's target (toCategory, new key) when it began
AtTarget(t) ==
    {d \in OtherItems(t) :
        IsDoc(t.wrote) /\ d["category"] = t.wrote["category"] /\ d["key"] = t.wrote["key"]}

\* C29: a re-categorizing promote destroys no memory other than its source
\* item: an item already at the target (toCategory, new key) is not replaced,
\* and every item the store held other than the source (category, key) is
\* still held, as it was, at every step of the promote and after it.
C29_PromoteDestroysOnlySource ==
    LET t == task[1]
    IN  (t.op \in PromoteOps /\ Recategorizes(t)) => OtherItems(t) \subseteq store

\* a completed re-categorizing promote whose target was free leaves every
\* other item as it was
C29_FreeTargetKeepsOthers ==
    LET t == task[1]
    IN  (t.op \in PromoteOps /\ Recategorizes(t) /\ AtTarget(t) = {}) =>
            OtherItems(t) \subseteq store
C29_FreeTargetWitness ==
    LET t == task[1]
    IN  /\ t.op \in PromoteOps /\ Recategorizes(t) /\ Completed(t)
        /\ AtTarget(t) = {} /\ OtherItems(t) # {}

====
